---- MODULE Spec2Model ----
(***************************************************************************)
(* Procedural map generator of Remere's Map Editor (source/map_generator,  *)
(* source/simplex_noise): island and dungeon generation onto a host map.   *)
(*                                                                         *)
(* Numbers.  double values are fixed-point integers with Scale units per   *)
(* 1.0.  The 64-bit numeric seed is four 16-bit limbs, least significant   *)
(* first, so that its low and high 32-bit halves keep their width.         *)
(* std::mt19937 is a linear congruential generator over 0 .. RngMod-1: the *)
(* model keeps what the code relies on, that the stream is a function of   *)
(* the seed alone.                                                         *)
(***************************************************************************)
EXTENDS Integers, Sequences, FiniteSets, TLC

\* fixed-point resolution of a double: 1.0 is Scale
Scale == 10 * 10 * 10
\* one 16-bit limb of a 64-bit or 32-bit unsigned value
Limb == 256 * 256
\* modulus and multiplier of the generator standing for std::mt19937
RngMod == Limb + 1
RngMul == 75

\* e, with v evaluated first: a loop that carries v through many iterations
\* evaluates it iteration by iteration instead of all at the end
Strict(v, e) == IF v = v THEN e ELSE e

\* F(e): what LET v == e IN F(v) is, with one occurrence of e
Let(e, F(_)) == F(e)

Min(a, b) == IF a < b THEN a ELSE b
Max(a, b) == IF a > b THEN a ELSE b
Abs(a) == IF a < 0 THEN -a ELSE a

\* static_cast<int>(double): truncation toward zero of a fixed-point value
TruncToInt(v) == IF v >= 0 THEN v \div Scale ELSE -((-v) \div Scale)
\* product and quotient of two fixed-point values
FMul(a, b) == (a * b) \div Scale
FDiv(a, b) == (a * Scale) \div b

RECURSIVE IsqrtBits(_, _, _)
IsqrtBits(n, r, bit) ==
    IF bit = 0 THEN r
    ELSE IF (r + bit) * (r + bit) <= n THEN IsqrtBits(n, r + bit, bit \div 2)
         ELSE IsqrtBits(n, r, bit \div 2)
\* floor of the square root, for 0 <= n < 2^30
Isqrt(n) == IsqrtBits(n, 0, 16384)

(***************************************************************************)
(* Seed strings.  A character is a number: 0..9 are the digits '0'..'9',   *)
(* 10..35 the letters 'a'..'z'.                                            *)
(***************************************************************************)
IsDigit(c) == c \in 0..9

\* n * m + d on four 16-bit limbs; the fifth element is the carry out
MulAdd64(n, m, d) ==
    LET t1 == n[1] * m + d
        t2 == n[2] * m + (t1 \div Limb)
        t3 == n[3] * m + (t2 \div Limb)
        t4 == n[4] * m + (t3 \div Limb)
    IN  <<t1 % Limb, t2 % Limb, t3 % Limb, t4 % Limb, t4 \div Limb>>

Zero64 == <<0, 0, 0, 0>>
Low64(n5) == <<n5[1], n5[2], n5[3], n5[4]>>

\* std::stoull on the leading digits: [ok, value]; ok is FALSE when it throws
\* (no digit to convert: std::invalid_argument; overflow: std::out_of_range)
RECURSIVE StoullFrom(_, _, _)
StoullFrom(s, i, acc) ==
    IF i > Len(s) \/ ~IsDigit(s[i]) THEN [ok |-> i > 1, value |-> acc]
    ELSE Let(MulAdd64(acc, 10, s[i]),
             LAMBDA n5 : IF n5[5] # 0 THEN [ok |-> FALSE, value |-> Zero64]
                         ELSE StoullFrom(s, i + 1, Low64(n5)))
Stoull(s) == StoullFrom(s, 1, Zero64)

\* std::hash<std::string>: a 64-bit value that is a function of the characters
RECURSIVE HashFrom(_, _, _)
HashFrom(s, i, acc) ==
    IF i > Len(s) THEN acc
    ELSE HashFrom(s, i + 1, Low64(MulAdd64(acc, 31, s[i] + 1)))
StringHash(s) == HashFrom(s, 1, <<5381, 0, 0, 0>>)

\* unsigned long long numeric_seed of seedRandom
NumericSeed(s) ==
    Let(Stoull(s), LAMBDA parsed : IF parsed.ok THEN parsed.value ELSE StringHash(s))

RECURSIVE XorBits(_, _, _)
XorBits(a, b, n) ==
    IF n = 0 THEN 0
    ELSE ((a + b) % 2) + 2 * XorBits(a \div 2, b \div 2, n - 1)
Xor16(a, b) == XorBits(a, b, 16)

\* numeric_seed & 0xFFFFFFFF, as two limbs
Low32(n) == <<n[1], n[2]>>
High32(n) == <<n[3], n[4]>>
Xor32(a, b) == <<Xor16(a[1], b[1]), Xor16(a[2], b[2])>>
\* the argument of rng.seed: (numeric_seed >> 32) ^ (numeric_seed & 0xFFFFFFFF)
MixedSeed(n) == Xor32(High32(n), Low32(n))

(***************************************************************************)
(* std::mt19937 and std::uniform_int_distribution.                         *)
(***************************************************************************)
\* the engine's state after seed(s32)
RngSeed(s32) == (s32[1] + 3 * s32[2] + 1) % RngMod
\* the engine's next state; the value drawn is the new state
RngNext(r) == (r * RngMul + 74) % RngMod
\* uniform_int_distribution<>(a, b)(rng) for a <= b: [v, rng]
UniformInt(r, a, b) ==
    Let(RngNext(r), LAMBDA r2 : [v |-> a + (r2 % (b - a + 1)), rng |-> r2])

(***************************************************************************)
(* SimplexNoise.                                                           *)
(***************************************************************************)
PermSize == 256
\* F2 = 0.5 * (sqrt(3.0) - 1.0) and G2 = (3.0 - sqrt(3.0)) / 6.0
F2 == (366 * Scale) \div 1000
G2 == (211 * Scale) \div 1000
NoiseGain == 70

Swap(p, i, j) == [p EXCEPT ![i] = p[j], ![j] = p[i]]

\* one iteration of the shuffle loop of initializePermutation, on [p, r]
ShuffleStep(st, i) ==
    Let(RngNext(st.r), LAMBDA r2 : [p |-> Swap(st.p, i, r2 % (i + 1)), r |-> r2])

\* iterations i, i-1, .. lo of the shuffle loop
RECURSIVE ShuffleRange(_, _, _)
ShuffleRange(st, i, lo) ==
    IF i < lo THEN st
    ELSE Let(ShuffleStep(st, i), LAMBDA st2 : Strict(st2, ShuffleRange(st2, i - 1, lo)))

\* the shuffle loop from index i down to 1, sixteen iterations at a time
RECURSIVE Shuffle(_, _)
Shuffle(st, i) ==
    IF i < 1 THEN st.p
    ELSE Let(ShuffleRange(st, i, Max(1, i - 15)),
             LAMBDA st2 : Strict(st2, Shuffle(st2, i - 16)))

\* SimplexNoise::initializePermutation: perm[0..511]
InitializePermutation(seed32) ==
    Let(Shuffle([p |-> [i \in 0..(PermSize - 1) |-> i], r |-> RngSeed(seed32)],
                PermSize - 1),
        LAMBDA p : [i \in 0..(2 * PermSize - 1) |-> p[i % PermSize]])

\* permMod12[i], which the code precomputes as perm[i] % 12
PermMod12(perm, i) == perm[i] % 12

grad3 ==
    << <<1, 1>>, <<-1, 1>>, <<1, -1>>, <<-1, -1>>,
       <<1, 0>>, <<-1, 0>>, <<1, 0>>, <<-1, 0>>,
       <<0, 1>>, <<0, -1>>, <<0, 1>>, <<0, -1>> >>

\* SimplexNoise::fastfloor
fastfloor(v) == Let(TruncToInt(v), LAMBDA xi : IF v < xi * Scale THEN xi - 1 ELSE xi)

\* SimplexNoise::dot with gradient index gi (0-based)
dot(gi, x, y) == grad3[gi + 1][1] * x + grad3[gi + 1][2] * y

\* one corner's contribution n0, n1 or n2 for its t, kept in units of
\* 1 / (Scale * Scale)
CornerOf(t, gi, x, y) ==
    IF t < 0 THEN 0
    ELSE Let(FMul(t, t), LAMBDA t2 : (t2 * t2 * dot(gi, x, y)) \div Scale)
Corner(gi, x, y) == CornerOf((Scale \div 2) - FMul(x, x) - FMul(y, y), gi, x, y)

\* SimplexNoise::noise once the cell (i, j) and the offsets (x0, y0) from its origin
\* are known
NoiseInCell(perm, i, j, x0, y0) ==
    LET i1 == IF x0 > y0 THEN 1 ELSE 0
        j1 == IF x0 > y0 THEN 0 ELSE 1
        ii == i % PermSize
        jj == j % PermSize
    IN  (NoiseGain
           * (Corner(PermMod12(perm, ii + perm[jj]), x0, y0)
              + Corner(PermMod12(perm, ii + i1 + perm[jj + j1]),
                       x0 - i1 * Scale + G2, y0 - j1 * Scale + G2)
              + Corner(PermMod12(perm, ii + 1 + perm[jj + 1]),
                       x0 - Scale + 2 * G2, y0 - Scale + 2 * G2)))
            \div Scale

\* SimplexNoise::noise once the cell (i, j) is known
NoiseFromCell(perm, xin, yin, i, j) ==
    NoiseInCell(perm, i, j, xin - (i * Scale - (i + j) * G2),
                yin - (j * Scale - (i + j) * G2))

\* SimplexNoise::noise once the skew s is known
NoiseSkewed(perm, xin, yin, s) ==
    NoiseFromCell(perm, xin, yin, fastfloor(xin + s), fastfloor(yin + s))

\* SimplexNoise::noise
noise(perm, xin, yin) == NoiseSkewed(perm, xin, yin, FMul(xin + yin, F2))

\* the octave loop of SimplexNoise::fractal: [value, maxValue]
RECURSIVE FractalLoop(_, _, _, _, _, _, _, _, _)
FractalLoop(perm, x, y, n, persistence, lacunarity, amplitude, frequency, acc) ==
    IF n = 0 THEN acc
    ELSE FractalLoop(perm, x, y, n - 1, persistence, lacunarity,
                     FMul(amplitude, persistence), FMul(frequency, lacunarity),
                     [value |-> acc.value
                                  + FMul(noise(perm, FMul(x, frequency), FMul(y, frequency)),
                                         amplitude),
                      maxValue |-> acc.maxValue + amplitude])

\* SimplexNoise::fractal, for octaves >= 1
fractal(perm, x, y, octaves, persistence, lacunarity) ==
    Let(FractalLoop(perm, x, y, octaves, persistence, lacunarity, Scale, Scale,
                    [value |-> 0, maxValue |-> 0]),
        LAMBDA r : (r.value * Scale) \div r.maxValue)

(***************************************************************************)
(* Host map (external collaborator).  A position is <<x, y, z>>; the map   *)
(* is a function from the positions that hold a tile to the tile.  A tile  *)
(* has one ground slot (0: no ground item) and a list of stacked items.    *)
(***************************************************************************)
Pos(x, y, z) == <<x, y, z>>
NullTile == [ground |-> 0, items |-> <<>>]

\* ids the item catalog knows; Item::Create returns nullptr (0) for any other
KnownIds == {4608, 4526, 1030, 406, 100, 200}
ItemCreate(id) == IF id \in KnownIds THEN id ELSE 0

\* map->getTile(pos) != nullptr
HasTile(m, pos) == pos \in DOMAIN m
\* tile && tile->ground
HasGround(m, pos) == HasTile(m, pos) /\ m[pos].ground # 0
\* tile->ground->getID(), 0 when there is no tile or no ground
GroundId(m, pos) == IF HasTile(m, pos) THEN m[pos].ground ELSE 0
\* map->getTile(pos), or the tile map->allocator(map->createTileL(pos)) makes
GetOrCreateTile(m, pos) == IF HasTile(m, pos) THEN m[pos] ELSE NullTile
\* map->setTile(pos, tile) for every pos of ps, tile given by TileAt
SetTiles(m, ps, TileAt(_)) ==
    [p \in (DOMAIN m) \cup ps |-> IF p \in ps THEN TileAt(p) ELSE m[p]]

(***************************************************************************)
(* Island generation steps.                                                *)
(***************************************************************************)
DefaultIslandConfig ==
    [noise_scale |-> Scale \div 100, noise_octaves |-> 4,
     noise_persistence |-> Scale \div 2, noise_lacunarity |-> 2 * Scale,
     island_size |-> (8 * Scale) \div 10, island_falloff |-> 2 * Scale,
     island_threshold |-> (3 * Scale) \div 10,
     water_id |-> 4608, ground_id |-> 4526,
     enable_cleanup |-> TRUE, min_land_patch_size |-> 4, max_water_hole_size |-> 3,
     smoothing_passes |-> 2, target_floor |-> 7]

\* MapGenerator::generateHeightMap: heightMap[y][x]
generateHeightMap(perm, config, width, height) ==
    [y \in 0..(height - 1) |->
        [x \in 0..(width - 1) |->
            FMul(fractal(perm, x * config.noise_scale, y * config.noise_scale,
                         config.noise_octaves, config.noise_persistence,
                         config.noise_lacunarity) + Scale,
                 Scale \div 2)]]

\* MapGenerator::getDistance
getDistance(x, y, centerX, centerY) ==
    Isqrt(((x - centerX) * (x - centerX) + (y - centerY) * (y - centerY)) * Scale * Scale)

\* std::pow(d, e) for an exponent e that is a whole number
RECURSIVE PowInt(_, _)
PowInt(d, n) == IF n = 0 THEN Scale ELSE FMul(d, PowInt(d, n - 1))

\* MapGenerator::applyFalloff
applyFalloff(distance, falloff) ==
    IF distance < 0 THEN 0
    ELSE IF distance > Scale THEN Scale
    ELSE PowInt(distance, falloff \div Scale)

\* MapGenerator::applyIslandMask
applyIslandMask(heightMap, config, width, height) ==
    LET centerX == (width * Scale) \div 2
        centerY == (height * Scale) \div 2
        maxRadius == (Min(width, height) * Scale) \div 2
        Masked(x, y) ==
            LET distance == getDistance(x, y, TruncToInt(centerX), TruncToInt(centerY))
                normalizedDistance == FDiv(distance, FMul(maxRadius, config.island_size))
                falloff == applyFalloff(normalizedDistance, config.island_falloff)
            IN  Max(0, Min(Scale, heightMap[y][x] - falloff))
    IN  [y \in 0..(height - 1) |-> [x \in 0..(width - 1) |-> Masked(x, y)]]

\* TileIdFor with the two ids exchanged
TileIdForSwapped(config, height_value) ==
    IF height_value < FMul(config.island_threshold + Scale, Scale \div 2)
    THEN config.ground_id ELSE config.water_id

\* the tile id placeTiles chooses for a height value
TileIdFor(config, height_value) ==
    LET normalized_threshold == FMul(config.island_threshold + Scale, Scale \div 2)
    IN  IF height_value < normalized_threshold THEN config.water_id ELSE config.ground_id

\* the body of placeTiles' loop for one cell: the tile left at the position
PlacedTile(m, pos, tileId) ==
    [GetOrCreateTile(m, pos) EXCEPT !.ground = ItemCreate(tileId)]

\* placeTiles' loop for the cells with row-major index from .. to-1
PlaceRange(m, heightMap, config, width, offsetX, offsetY, from, to) ==
    LET z == config.target_floor
        ps == {Pos((i % width) + offsetX, (i \div width) + offsetY, z) : i \in from..(to - 1)}
        TileAt(p) == PlacedTile(m, p, TileIdFor(config, heightMap[p[2] - offsetY][p[1] - offsetX]))
    IN  SetTiles(m, ps, TileAt)

\* the periodic report's value without the base of the placement phase
TickProgressNoBase(tilesPlaced, totalTiles) == (tilesPlaced * 30) \div totalTiles

\* tilesPlaced % 1000 == 0: the period of placeTiles' progress report
TickEvery == 1000
\* the progress value of placeTiles' periodic report
TickProgress(tilesPlaced, totalTiles) == 40 + (tilesPlaced * 30) \div totalTiles

(***************************************************************************)
(* Cleanup: flood fill, small patches and holes, coastline smoothing.      *)
(* A cell is <<x, y>> inside the width x height rectangle.                 *)
(***************************************************************************)
Cells(width, height) == (0..(width - 1)) \X (0..(height - 1))
InRect(c, width, height) == c[1] >= 0 /\ c[1] < width /\ c[2] >= 0 /\ c[2] < height
CellPos(c, z, offsetX, offsetY) == Pos(c[1] + offsetX, c[2] + offsetY, z)
Neighbours4(c) ==
    {<<c[1] - 1, c[2]>>, <<c[1] + 1, c[2]>>, <<c[1], c[2] - 1>>, <<c[1], c[2] + 1>>}
Neighbours8(c) ==
    {<<c[1] + dx, c[2] + dy>> : dx \in {-1, 0, 1}, dy \in {-1, 0, 1}} \ {c}

\* the cells a breadth-first traversal reaches: 4-connected cells whose tile has a
\* ground of target_id
RECURSIVE Flood(_, _, _, _, _, _, _, _, _)
\* the traversal goes on from the cells next that its last step reached
FloodOn(m, z, width, height, target_id, offsetX, offsetY, visited, next) ==
    Flood(m, z, width, height, target_id, offsetX, offsetY, visited \cup next, next)

Flood(m, z, width, height, target_id, offsetX, offsetY, visited, frontier) ==
    IF frontier = {} THEN visited
    ELSE FloodOn(m, z, width, height, target_id, offsetX, offsetY, visited,
                 {n \in UNION {Neighbours4(c) : c \in frontier} :
                     /\ InRect(n, width, height)
                     /\ n \notin visited
                     /\ GroundId(m, CellPos(n, z, offsetX, offsetY)) = target_id})

\* what floodFillCount leaves once the region it traverses is known
FloodFilled(m, region, z, replacement_id, offsetX, offsetY) ==
    LET Replaced(p) == [m[p] EXCEPT !.ground = ItemCreate(replacement_id)]
    IN  IF replacement_id = 0
        THEN [count |-> Cardinality(region), map |-> m, writes |-> 0]
        ELSE [count |-> Cardinality(region),
              map |-> SetTiles(m, {CellPos(c, z, offsetX, offsetY) : c \in region},
                               Replaced),
              writes |-> Cardinality(region)]

\* MapGenerator::floodFillCount: [count, map, writes]
floodFillCount(m, x, y, z, width, height, target_id, replacement_id, offsetX, offsetY) ==
    IF GroundId(m, CellPos(<<x, y>>, z, offsetX, offsetY)) # target_id
        \/ ~HasGround(m, CellPos(<<x, y>>, z, offsetX, offsetY))
    THEN [count |-> 0, map |-> m, writes |-> 0]
    ELSE FloodFilled(m, Flood(m, z, width, height, target_id, offsetX, offsetY,
                              {<<x, y>>}, {<<x, y>>}),
                     z, replacement_id, offsetX, offsetY)

\* the floor removeSmallPatches works on, and the two ids it swaps
PatchFloor == 7
SeaWaterId == 4608
GrassId == 4526

\* whether the scan of removeSmallPatches, at or after row-major index i, stops at c:
\* c is not visited and has a ground of tile_id
PatchStarts(m, visited, tile_id, width, offsetX, offsetY, i, c) ==
    /\ c[2] * width + c[1] >= i
    /\ c \notin visited
    /\ GroundId(m, CellPos(c, PatchFloor, offsetX, offsetY)) = tile_id

\* the least number of a set of numbers that is not empty
Least(ns) == CHOOSE n \in ns : \A n2 \in ns : n <= n2

\* the first cell in row-major order of a set of cells that is not empty
FirstCell(cs) ==
    Let(Least({c[2] : c \in cs}),
        LAMBDA y : <<Least({c[1] : c \in {c2 \in cs : c2[2] = y}}), y>>)

\* the first cell at or after row-major index i that the scan of removeSmallPatches
\* stops at; <<>> when there is none
NextPatchStart(m, visited, tile_id, width, height, offsetX, offsetY, i) ==
    Let({c \in Cells(width, height) :
            PatchStarts(m, visited, tile_id, width, offsetX, offsetY, i, c)},
        LAMBDA cs : IF cs = {} THEN <<>> ELSE FirstCell(cs))

\* OppositeId that gives back the id it was given
OppositeIdSame(tile_id) == tile_id

\* the id removeSmallPatches replaces a small patch of tile_id with
OppositeId(tile_id) == IF tile_id = SeaWaterId THEN GrassId ELSE SeaWaterId

\* the scan of removeSmallPatches from row-major index i on: [map, writes]
RECURSIVE PatchScan(_, _, _, _, _, _, _, _, _, _)
\* the body of the scan's loop for the cell c it stops at, after the count probe
PatchAt(m, writes, visited, tile_id, min_size, width, height, offsetX, offsetY, c, probe) ==
    Let(IF probe.count < min_size /\ probe.count > 0
        THEN floodFillCount(m, c[1], c[2], PatchFloor, width, height,
                            tile_id, OppositeId(tile_id), offsetX, offsetY)
        ELSE probe,
        LAMBDA fill :
            Strict(fill,
                   PatchScan(fill.map, writes + fill.writes,
                             visited \cup Flood(fill.map, PatchFloor, width, height, tile_id,
                                                offsetX, offsetY, {c}, {c}),
                             tile_id, min_size, width, height, offsetX, offsetY,
                             c[2] * width + c[1] + 1)))

PatchScan(m, writes, visited, tile_id, min_size, width, height, offsetX, offsetY, i) ==
    Let(NextPatchStart(m, visited, tile_id, width, height, offsetX, offsetY, i),
        LAMBDA c :
            IF c = <<>> THEN [map |-> m, writes |-> writes]
            ELSE PatchAt(m, writes, visited, tile_id, min_size, width, height,
                         offsetX, offsetY, c,
                         floodFillCount(m, c[1], c[2], PatchFloor, width, height,
                                        tile_id, 0, offsetX, offsetY)))

\* MapGenerator::removeSmallPatches: [map, writes]
removeSmallPatches(m, tile_id, min_size, width, height, offsetX, offsetY) ==
    PatchScan(m, 0, {}, tile_id, min_size, width, height, offsetX, offsetY, 0)

\* MapGenerator::fillSmallHoles: [map, writes]
fillSmallHoles(m, target_id, fill_id, max_size, width, height, offsetX, offsetY) ==
    removeSmallPatches(m, target_id, max_size, width, height, offsetX, offsetY)

\* one pass of smoothCoastline: [map, writes]
SmoothPass(m, config, width, height, offsetX, offsetY) ==
    LET z == config.target_floor
        tileIds == [c \in Cells(width, height) |-> GroundId(m, CellPos(c, z, offsetX, offsetY))]
        Count(c, id) ==
            Cardinality({n \in Neighbours8(c) : InRect(n, width, height) /\ tileIds[n] = id})
        NewId(c) ==
            LET waterCount == Count(c, config.water_id)
                landCount == IF config.ground_id = config.water_id THEN 0
                             ELSE Count(c, config.ground_id)
            IN  IF tileIds[c] = config.water_id /\ landCount > waterCount
                THEN config.ground_id
                ELSE IF tileIds[c] = config.ground_id /\ waterCount > landCount
                THEN config.water_id
                ELSE tileIds[c]
        changed == {c \in Cells(width, height) :
                      /\ c[1] >= 1 /\ c[1] < width - 1 /\ c[2] >= 1 /\ c[2] < height - 1
                      /\ NewId(c) # tileIds[c]
                      /\ HasTile(m, CellPos(c, z, offsetX, offsetY))}
        ps == {CellPos(c, z, offsetX, offsetY) : c \in changed}
        TileAt(p) == [m[p] EXCEPT !.ground = ItemCreate(NewId(<<p[1] - offsetX, p[2] - offsetY>>))]
    IN  [map |-> SetTiles(m, ps, TileAt), writes |-> Cardinality(changed)]

\* MapGenerator::smoothCoastline with pass passes left: [map, writes]
RECURSIVE SmoothLoop(_, _, _, _, _, _, _, _)
SmoothLoop(m, writes, config, width, height, offsetX, offsetY, passes) ==
    IF passes <= 0 THEN [map |-> m, writes |-> writes]
    ELSE Let(SmoothPass(m, config, width, height, offsetX, offsetY),
             LAMBDA r : Strict(r, SmoothLoop(r.map, writes + r.writes, config, width,
                                             height, offsetX, offsetY, passes - 1)))

smoothCoastline(m, config, width, height, offsetX, offsetY) ==
    SmoothLoop(m, 0, config, width, height, offsetX, offsetY, config.smoothing_passes)

(***************************************************************************)
(* Dungeon generation steps.  The Grid is a function from the cells of the *)
(* width x height rectangle to 0 (Void) or 1 (Floor).  A step that draws   *)
(* random numbers works on a record that carries the engine's state rng    *)
(* and ub, which is TRUE once the step ran into undefined behaviour: a     *)
(* uniform_int_distribution whose lower bound exceeds its upper bound, or  *)
(* an index outside a vector.                                              *)
(***************************************************************************)
DefaultDungeonConfig ==
    [target_floor |-> 7, wall_id |-> 1030, floor_id |-> 406,
     room_count |-> 15, min_room_size |-> 5, max_room_size |-> 12,
     corridor_width |-> 2,
     generate_caves |-> TRUE, cave_threshold |-> (4 * Scale) \div 10,
     connect_all_rooms |-> TRUE, add_dead_ends |-> TRUE,
     use_smart_pathfinding |-> TRUE, add_intersections |-> TRUE,
     intersection_count |-> 5, intersection_size |-> 2]

\* Room::cx, Room::cy, Room::intersects; a room is [x, y, w, h]
cx(r) == r.x + r.w \div 2
cy(r) == r.y + r.h \div 2
intersects(r, other) ==
    /\ r.x <= other.x + other.w /\ r.x + r.w >= other.x
    /\ r.y <= other.y + other.h /\ r.y + r.h >= other.y

\* the cells of a room
RoomCells(r) == (r.x..(r.x + r.w - 1)) \X (r.y..(r.y + r.h - 1))

\* Overlaps without the test: every new room is kept
OverlapsNever(newRoom, rooms) == FALSE

\* whether newRoom, grown by one cell on every side, intersects a room of rooms
Overlaps(newRoom, rooms) ==
    \E k \in 1..Len(rooms) :
        intersects([x |-> newRoom.x - 1, y |-> newRoom.y - 1,
                    w |-> newRoom.w + 2, h |-> newRoom.h + 2], rooms[k])

\* the end of an attempt of generateRooms' loop: newRoom is kept unless it overlaps
RoomTried(st, newRoom, r) ==
    [rooms |-> IF Overlaps(newRoom, st.rooms) THEN st.rooms ELSE Append(st.rooms, newRoom),
     rng |-> r, ub |-> FALSE]

\* RoomSized with x and y drawn up to width - w and height - h
RoomSizedWide(st, dw, dh, width, height) ==
    IF width - dw.v - 2 < 1 \/ height - dh.v - 2 < 1
    THEN [st EXCEPT !.ub = TRUE]
    ELSE Let(UniformInt(dh.rng, 1, width - dw.v),
             LAMBDA dx :
                 Let(UniformInt(dx.rng, 1, height - dh.v),
                     LAMBDA dy :
                         RoomTried(st, [x |-> dx.v, y |-> dy.v, w |-> dw.v, h |-> dh.v],
                                   dy.rng)))

\* an attempt of generateRooms' loop after the draws dw and dh of w and h
RoomSized(st, dw, dh, width, height) ==
    IF width - dw.v - 2 < 1 \/ height - dh.v - 2 < 1
    THEN [st EXCEPT !.ub = TRUE]
    ELSE Let(UniformInt(dh.rng, 1, width - dw.v - 2),
             LAMBDA dx :
                 Let(UniformInt(dx.rng, 1, height - dh.v - 2),
                     LAMBDA dy :
                         RoomTried(st, [x |-> dx.v, y |-> dy.v, w |-> dw.v, h |-> dh.v],
                                   dy.rng)))

\* one attempt of generateRooms' loop, on [rooms, rng, ub]
RoomAttempt(st, config, width, height) ==
    IF config.min_room_size > config.max_room_size
    THEN [st EXCEPT !.ub = TRUE]
    ELSE Let(UniformInt(st.rng, config.min_room_size, config.max_room_size),
             LAMBDA dw :
                 RoomSized(st, dw,
                           UniformInt(dw.rng, config.min_room_size, config.max_room_size),
                           width, height))

\* RoomLoop with attempts <= max_attempts for its budget test
RECURSIVE RoomLoopOneMore(_, _, _, _, _)
RoomLoopOneMore(st, attempts, config, width, height) ==
    IF st.ub \/ ~(Len(st.rooms) < config.room_count /\ attempts <= config.room_count * 10)
    THEN [rooms |-> st.rooms, rng |-> st.rng, ub |-> st.ub, attempts |-> attempts]
    ELSE RoomLoopOneMore(RoomAttempt(st, config, width, height), attempts + 1, config,
                         width, height)

\* generateRooms' loop after attempts attempts; the result keeps the final attempts
RECURSIVE RoomLoop(_, _, _, _, _)
RoomLoop(st, attempts, config, width, height) ==
    IF st.ub \/ ~(Len(st.rooms) < config.room_count /\ attempts < config.room_count * 10)
    THEN [rooms |-> st.rooms, rng |-> st.rng, ub |-> st.ub, attempts |-> attempts]
    ELSE RoomLoop(RoomAttempt(st, config, width, height), attempts + 1, config,
                  width, height)

\* MapGenerator::generateRooms: [rooms, rng, ub, attempts]
generateRooms(r, config, width, height) ==
    RoomLoop([rooms |-> <<>>, rng |-> r, ub |-> FALSE], 0, config, width, height)

\* the new Grid: std::vector<std::vector<int>> grid(height, std::vector<int>(width, 0))
NewGrid(width, height) == [c \in Cells(width, height) |-> 0]

\* grid[y][x] = 1 for every cell of cs; the cells are inside the Grid
Carve(grid, cs) == [c \in DOMAIN grid |-> IF c \in cs THEN 1 ELSE grid[c]]

\* createCorridorTile for every cell of cs: cells outside the Grid are skipped
createCorridorTiles(grid, cs) == Carve(grid, cs \cap DOMAIN grid)

\* "Carve Rooms" of generateDungeonMap
AllRoomCells(rooms) == UNION {RoomCells(rooms[k]) : k \in 1..Len(rooms)}

\* isWallPosition looking at the four orthogonal neighbours only
isWallPosition4(grid, x, y, width, height) ==
    /\ InRect(<<x, y>>, width, height)
    /\ grid[<<x, y>>] # 1
    /\ \E n \in Neighbours4(<<x, y>>) : InRect(n, width, height) /\ grid[n] = 1

\* MapGenerator::isWallPosition
isWallPosition(grid, x, y, width, height) ==
    /\ InRect(<<x, y>>, width, height)
    /\ grid[<<x, y>>] # 1
    /\ \E n \in Neighbours8(<<x, y>>) : InRect(n, width, height) /\ grid[n] = 1

(***************************************************************************)
(* A* pathfinding.  openSet is a std::priority_queue over std::greater:    *)
(* a binary heap in a sequence, kept by std::push_heap and std::pop_heap.  *)
(***************************************************************************)
\* Node::f without the cost so far: the nearest node to the goal comes first
FScoreGreedy(n) == n.h

\* Node::f
FScore(n) == n.g + n.h
\* Node::operator>
NodeGreater(a, b) == FScore(a) > FScore(b)

\* std::push_heap: the value sifts up from hole (0-based) while the parent is greater
RECURSIVE PushHeapFrom(_, _, _)
PushHeapFrom(heap, hole, value) ==
    IF hole > 0 /\ NodeGreater(heap[(hole - 1) \div 2 + 1], value)
    THEN PushHeapFrom([heap EXCEPT ![hole + 1] = heap[(hole - 1) \div 2 + 1]],
                      (hole - 1) \div 2, value)
    ELSE [heap EXCEPT ![hole + 1] = value]

\* priority_queue::push
HeapPush(heap, value) == PushHeapFrom(Append(heap, value), Len(heap), value)

\* the child (0-based) std::__adjust_heap moves up into the hole: the left one when
\* the right one is greater
LesserChild(heap, right) ==
    IF NodeGreater(heap[right + 1], heap[right]) THEN right - 1 ELSE right

\* std::__adjust_heap: the hole moves down to a leaf along the lesser children, then
\* the value sifts up from there
RECURSIVE AdjustHeapFrom(_, _, _, _)
AdjustHeapFrom(heap, hole, len, value) ==
    IF 2 * (hole + 1) < len
    THEN Let(LesserChild(heap, 2 * (hole + 1)),
             LAMBDA child : AdjustHeapFrom([heap EXCEPT ![hole + 1] = heap[child + 1]],
                                           child, len, value))
    ELSE IF 2 * (hole + 1) = len
    THEN PushHeapFrom([heap EXCEPT ![hole + 1] = heap[len]], len - 1, value)
    ELSE PushHeapFrom(heap, hole, value)

\* priority_queue::pop: the heap without its top
HeapPop(heap) ==
    IF Len(heap) = 1 THEN <<>>
    ELSE AdjustHeapFrom(SubSeq(heap, 1, Len(heap) - 1), 0, Len(heap) - 1, heap[Len(heap)])

AStarInfinity == 999999
AStarVoidCost == 5
NoParent == <<-1, -1>>

\* the neighbours of a cell in the order of findShortestPath's dx[], dy[]
NeighbourSeq(c) ==
    << <<c[1] - 1, c[2]>>, <<c[1] + 1, c[2]>>, <<c[1], c[2] - 1>>, <<c[1], c[2] + 1>> >>

\* the neighbour loop's body when the step to n, of cost tentative_g in all, is shorter
Relaxed(st, current, n, goal, tentative_g) ==
    IF tentative_g < st.gScore[n]
    THEN [st EXCEPT !.cameFrom[n] = current,
                    !.gScore[n] = tentative_g,
                    !.openSet = HeapPush(st.openSet,
                        [x |-> n[1], y |-> n[2], g |-> tentative_g,
                         h |-> Abs(goal[1] - n[1]) + Abs(goal[2] - n[2])])]
    ELSE st

\* the body of the neighbour loop for neighbour n of current, on
\* [openSet, gScore, cameFrom, found]
Relax(st, grid, current, n, goal, width, height) ==
    IF ~InRect(n, width, height) THEN st
    ELSE Relaxed(st, current, n, goal,
                 st.gScore[current] + (IF grid[n] = 1 THEN 1 ELSE AStarVoidCost))

\* the neighbour loop for the neighbours ns[k], ns[k+1], ..
RECURSIVE RelaxFrom(_, _, _, _, _, _, _, _)
RelaxFrom(st, grid, current, ns, k, goal, width, height) ==
    IF k > Len(ns) THEN st
    ELSE RelaxFrom(Relax(st, grid, current, ns[k], goal, width, height),
                   grid, current, ns, k + 1, goal, width, height)

\* one iteration of findShortestPath's while loop after openSet.pop(), current
\* being the cell popped
Expand(popped, current, grid, goal, width, height) ==
    IF current = goal THEN [popped EXCEPT !.found = TRUE]
    ELSE RelaxFrom(popped, grid, current, NeighbourSeq(current), 1, goal, width, height)

\* one iteration of findShortestPath's while loop
AStarStep(st, grid, goal, width, height) ==
    Expand([st EXCEPT !.openSet = HeapPop(st.openSet)],
           <<st.openSet[1].x, st.openSet[1].y>>, grid, goal, width, height)

\* up to n iterations of the while loop
RECURSIVE AStarBlock(_, _, _, _, _, _)
AStarBlock(st, n, grid, goal, width, height) ==
    IF n = 0 \/ st.found \/ st.openSet = <<>> THEN st
    ELSE AStarBlock(AStarStep(st, grid, goal, width, height), n - 1, grid, goal,
                    width, height)

\* the while loop, thirty-two iterations at a time
RECURSIVE AStarLoop(_, _, _, _, _)
AStarLoop(st, grid, goal, width, height) ==
    IF st.found \/ st.openSet = <<>> THEN st
    ELSE AStarLoop(AStarBlock(st, 32, grid, goal, width, height), grid, goal,
                   width, height)

\* PathTo that stops at the cell without a parent and leaves it out
RECURSIVE PathToSkipStart(_, _)
PathToSkipStart(cameFrom, c) ==
    IF cameFrom[c][1] = -1 THEN <<>>
    ELSE Append(PathToSkipStart(cameFrom, cameFrom[c]), c)

\* the path that follows cameFrom back from c, reversed: it ends at c
RECURSIVE PathTo(_, _)
PathTo(cameFrom, c) ==
    IF c[1] = -1 THEN <<>> ELSE Append(PathTo(cameFrom, cameFrom[c]), c)

\* what findShortestPath returns once its while loop has ended in st
PathFound(st, goal) == IF st.found THEN PathTo(st.cameFrom, goal) ELSE <<>>

\* MapGenerator::findShortestPath: the path as a sequence of cells, <<>> for no path
findShortestPath(grid, x1, y1, x2, y2, width, height) ==
    PathFound(AStarLoop([openSet |-> <<[x |-> x1, y |-> y1, g |-> 0,
                                         h |-> Abs(x2 - x1) + Abs(y2 - y1)]>>,
                         gScore |-> [c \in Cells(width, height) |->
                                        IF c = <<x1, y1>> THEN 0 ELSE AStarInfinity],
                         cameFrom |-> [c \in Cells(width, height) |-> NoParent],
                         found |-> FALSE],
                        grid, <<x2, y2>>, width, height),
              <<x2, y2>>)

(***************************************************************************)
(* Corridors, hubs, dead ends, caves and the commit pass.  The steps that  *)
(* change the Grid and draw random numbers work on [grid, rng, ub].        *)
(***************************************************************************)
\* a:size_t < b:int, b converted to size_t
SizeLess(a, b) == b < 0 \/ a < b

\* the values a coordinate takes when it steps from a to b, a itself left out
Steps(a, b) == IF b > a THEN (a + 1)..b ELSE b..(a - 1)

\* the cells createImprovedCorridor makes Floor, horizontal leg first or last
ImprovedCorridorCells(horizontalFirst, x1, y1, x2, y2, corridor_width) ==
    LET ws == 0..(corridor_width - 1)
    IN  IF horizontalFirst
        THEN {<<x, y1 + w>> : x \in Steps(x1, x2), w \in ws}
             \cup {<<x2, y + (IF x2 > x1 THEN w ELSE 0)>> : y \in Steps(y1, y2), w \in ws}
             \cup {<<x2 + w, y>> : y \in Steps(y1, y2), w \in ws}
        ELSE {<<x1 + w, y>> : y \in Steps(y1, y2), w \in ws}
             \cup {<<x, y2 + w>> : x \in Steps(x1, x2), w \in ws}

\* MapGenerator::createImprovedCorridor
createImprovedCorridor(st, x1, y1, x2, y2, config) ==
    Let(UniformInt(st.rng, 0, 1),
        LAMBDA coin :
            [st EXCEPT !.grid = createCorridorTiles(st.grid,
                           ImprovedCorridorCells(coin.v # 0, x1, y1, x2, y2,
                                                 config.corridor_width)),
                       !.rng = coin.rng])

\* the cells createSmartCorridor makes Floor along a path
PathCells(path, corridor_width) ==
    {<<path[k][1] + dx, path[k][2] + dy>> :
        k \in 1..Len(path), dx \in 0..(corridor_width - 1), dy \in 0..(corridor_width - 1)}

\* MapGenerator::createSmartCorridor once the path is known, <<>> standing for no
\* path and for no pathfinding
CorridorAlong(st, path, x1, y1, x2, y2, config) ==
    IF path # <<>>
    THEN [st EXCEPT !.grid = createCorridorTiles(st.grid,
                                                 PathCells(path, config.corridor_width))]
    ELSE createImprovedCorridor(st, x1, y1, x2, y2, config)

\* MapGenerator::createSmartCorridor; findShortestPath indexes its vectors with both
\* end points
createSmartCorridor(st, x1, y1, x2, y2, config, width, height) ==
    IF st.ub THEN st
    ELSE IF ~config.use_smart_pathfinding
    THEN CorridorAlong(st, <<>>, x1, y1, x2, y2, config)
    ELSE IF ~(InRect(<<x1, y1>>, width, height) /\ InRect(<<x2, y2>>, width, height))
    THEN [st EXCEPT !.ub = TRUE]
    ELSE CorridorAlong(st, findShortestPath(st.grid, x1, y1, x2, y2, width, height),
                       x1, y1, x2, y2, config)

\* the corridors between the end points ends[i], ends[i+1], .., each <<x1, y1, x2, y2>>
RECURSIVE CorridorLoop(_, _, _, _, _, _)
CorridorLoop(st, ends, i, config, width, height) ==
    IF i > Len(ends) THEN st
    ELSE Strict(st, CorridorLoop(createSmartCorridor(st, ends[i][1], ends[i][2],
                                                     ends[i][3], ends[i][4],
                                                     config, width, height),
                                 ends, i + 1, config, width, height))

\* generateCorridors with its loop starting one room late
generateCorridorsLate(rooms) ==
    [i \in 1..(Len(rooms) - 2) |->
        <<cx(rooms[i + 1]), cy(rooms[i + 1]), cx(rooms[i + 2]), cy(rooms[i + 2])>>]

\* MapGenerator::generateCorridors: the end points of the corridors it creates, in
\* its order
generateCorridors(rooms) ==
    [i \in 1..(Len(rooms) - 1) |->
        <<cx(rooms[i]), cy(rooms[i]), cx(rooms[i + 1]), cy(rooms[i + 1])>>]

\* FarEnough that tests the rooms' bounding boxes as they are, not enlarged
FarEnoughOfBox(x, y, rooms) ==
    ~\E k \in 1..Len(rooms) :
        /\ x >= rooms[k].x /\ x <= rooms[k].x + rooms[k].w
        /\ y >= rooms[k].y /\ y <= rooms[k].y + rooms[k].h

\* whether (x, y) is more than five cells away from every room
FarEnough(x, y, rooms) ==
    ~\E k \in 1..Len(rooms) :
        /\ x >= rooms[k].x - 5 /\ x <= rooms[k].x + rooms[k].w + 5
        /\ y >= rooms[k].y - 5 /\ y <= rooms[k].y + rooms[k].h + 5

\* an attempt of generateIntersections' loop after the draws dx and dy of x and y
IntersectionTried(st, dx, dy, config, rooms) ==
    [intersections |->
         IF FarEnough(dx.v, dy.v, rooms)
         THEN Append(st.intersections,
                     [centerX |-> dx.v, centerY |-> dy.v, size |-> config.intersection_size])
         ELSE st.intersections,
     rng |-> dy.rng, ub |-> FALSE]

\* one attempt of generateIntersections' loop, on [intersections, rng, ub]
IntersectionAttempt(st, config, rooms, width, height) ==
    IF width - 10 < 10 \/ height - 10 < 10
    THEN [st EXCEPT !.ub = TRUE]
    ELSE Let(UniformInt(st.rng, 10, width - 10),
             LAMBDA dx : IntersectionTried(st, dx, UniformInt(dx.rng, 10, height - 10),
                                           config, rooms))

IntersectionAttemptsMax == 100

\* whether generateIntersections' loop goes on
IntersectionsWanted(st, attempts, config) ==
    /\ ~st.ub
    /\ SizeLess(Len(st.intersections), config.intersection_count)
    /\ attempts < IntersectionAttemptsMax

\* the loop's state st with the attempts made so far
Attempted(st, attempts) ==
    [intersections |-> st.intersections, rng |-> st.rng, ub |-> st.ub,
     attempts |-> attempts]

\* up to n attempts of generateIntersections' loop
RECURSIVE IntersectionBlock(_, _, _, _, _, _, _)
IntersectionBlock(st, attempts, n, config, rooms, width, height) ==
    IF n = 0 \/ ~IntersectionsWanted(st, attempts, config) THEN Attempted(st, attempts)
    ELSE IntersectionBlock(IntersectionAttempt(st, config, rooms, width, height),
                           attempts + 1, n - 1, config, rooms, width, height)

\* generateIntersections' loop, ten attempts at a time; the result keeps the final
\* attempts
RECURSIVE IntersectionLoop(_, _, _, _, _, _)
IntersectionLoop(st, attempts, config, rooms, width, height) ==
    IF ~IntersectionsWanted(st, attempts, config) THEN Attempted(st, attempts)
    ELSE Let(IntersectionBlock(st, attempts, 10, config, rooms, width, height),
             LAMBDA b : IntersectionLoop(b, b.attempts, config, rooms, width, height))

\* MapGenerator::generateIntersections: [intersections, rng, ub, attempts]
generateIntersections(r, config, rooms, width, height) ==
    IntersectionLoop([intersections |-> <<>>, rng |-> r, ub |-> FALSE], 0,
                     config, rooms, width, height)

\* MapGenerator::placeIntersection, for every intersection
placeIntersections(grid, intersections) ==
    createCorridorTiles(grid,
        UNION {((intersections[k].centerX - intersections[k].size)
                    ..(intersections[k].centerX + intersections[k].size))
               \X ((intersections[k].centerY - intersections[k].size)
                    ..(intersections[k].centerY + intersections[k].size)) :
               k \in 1..Len(intersections)})

\* NearestIntersection with the test d <= bestDist: the last of the nearest ones
NearestIntersectionLast(room, intersections) ==
    LET d(k) == Abs(cx(room) - intersections[k].centerX)
                + Abs(cy(room) - intersections[k].centerY)
    IN  intersections[CHOOSE k \in 1..Len(intersections) :
                          \A j \in 1..Len(intersections) :
                              d(k) < d(j) \/ (d(k) = d(j) /\ k >= j)]

\* the first intersection nearest to room by Manhattan distance of the centres
NearestIntersection(room, intersections) ==
    LET d(k) == Abs(cx(room) - intersections[k].centerX)
                + Abs(cy(room) - intersections[k].centerY)
    IN  intersections[CHOOSE k \in 1..Len(intersections) :
                          \A j \in 1..Len(intersections) :
                              d(k) < d(j) \/ (d(k) = d(j) /\ k <= j)]

\* the end points of the corridor from a room to a hub
RoomToHub(room, hub) == <<cx(room), cy(room), hub.centerX, hub.centerY>>

\* MapGenerator::connectRoomsViaIntersections, intersections not empty: the end points
\* of the corridors it creates, in its order
connectRoomsViaIntersections(rooms, intersections) ==
    [i \in 1..Len(rooms) |->
        RoomToHub(rooms[i], NearestIntersection(rooms[i], intersections))]
    \o [i \in 1..(Len(intersections) - 1) |->
           <<intersections[i].centerX, intersections[i].centerY,
             intersections[i + 1].centerX, intersections[i + 1].centerY>>]

DeadEndCount == 10
DeadEndMinLen == 5
DeadEndMaxLen == 15

\* DeadEndCells with the test x >= 0 && x <= width-1 && y >= 0 && y <= height-1
DeadEndCellsToEdge(x, y, len, dir, width, height) ==
    LET dx == IF dir = 0 THEN 1 ELSE IF dir = 1 THEN -1 ELSE 0
        dy == IF dir = 2 THEN 1 ELSE IF dir = 3 THEN -1 ELSE 0
    IN  {c \in {<<x + s * dx, y + s * dy>> : s \in 1..len} :
            c[1] >= 0 /\ c[1] <= width - 1 /\ c[2] >= 0 /\ c[2] <= height - 1}

\* the dead end of len cells in direction dir from (x, y)
DeadEndCells(x, y, len, dir, width, height) ==
    LET dx == IF dir = 0 THEN 1 ELSE IF dir = 1 THEN -1 ELSE 0
        dy == IF dir = 2 THEN 1 ELSE IF dir = 3 THEN -1 ELSE 0
    IN  {c \in {<<x + s * dx, y + s * dy>> : s \in 1..len} :
            c[1] > 0 /\ c[1] < width - 1 /\ c[2] > 0 /\ c[2] < height - 1}

\* an iteration of addDeadEnds' loop that starts from a Floor cell (x, y), after the
\* draw len of the length
DeadEndFrom(st, x, y, len, dir, width, height) ==
    [grid |-> Carve(st.grid, DeadEndCells(x, y, len.v, dir.v, width, height)),
     rng |-> dir.rng, ub |-> FALSE]

\* an iteration of addDeadEnds' loop after the draws px and py of x and y
DeadEndAt(st, px, py, width, height) ==
    IF st.grid[<<px.v, py.v>>] = 1
    THEN Let(UniformInt(py.rng, DeadEndMinLen, DeadEndMaxLen),
             LAMBDA len : DeadEndFrom(st, px.v, py.v, len, UniformInt(len.rng, 0, 3),
                                      width, height))
    ELSE [st EXCEPT !.rng = py.rng]

\* one iteration of addDeadEnds' loop
DeadEnd(st, width, height) ==
    IF width - 2 < 1 \/ height - 2 < 1
    THEN [st EXCEPT !.ub = TRUE]
    ELSE Let(UniformInt(st.rng, 1, width - 2),
             LAMBDA px : DeadEndAt(st, px, UniformInt(px.rng, 1, height - 2),
                                   width, height))

RECURSIVE DeadEndLoop(_, _, _, _)
DeadEndLoop(st, i, width, height) ==
    IF i >= DeadEndCount \/ st.ub THEN st
    ELSE DeadEndLoop(DeadEnd(st, width, height), i + 1, width, height)

\* MapGenerator::addDeadEnds
addDeadEnds(st, width, height) == DeadEndLoop(st, 0, width, height)

\* step 4 of generateDungeonMap
DeadEndsAdded(st, config, width, height) ==
    IF config.add_dead_ends /\ ~st.ub THEN addDeadEnds(st, width, height) ELSE st

\* the end points of the corridors of step 3 of generateDungeonMap, in its order
CorridorEnds(rooms, intersections, config) ==
    (IF config.add_intersections /\ intersections # <<>>
     THEN connectRoomsViaIntersections(rooms, intersections)
     ELSE generateCorridors(rooms))
    \o (IF config.connect_all_rooms /\ Len(rooms) > 1
        THEN generateCorridors(rooms)
        ELSE <<>>)

\* steps 2 to 4 of generateDungeonMap once the intersections are known
LaidOut(grid, rooms, gi, config, width, height) ==
    IF gi.ub THEN [grid |-> grid, rng |-> gi.rng, ub |-> TRUE]
    ELSE DeadEndsAdded(
             CorridorLoop([grid |-> placeIntersections(grid, gi.intersections),
                           rng |-> gi.rng, ub |-> FALSE],
                          CorridorEnds(rooms, gi.intersections, config), 1,
                          config, width, height),
             config, width, height)

\* steps 2 to 4 of generateDungeonMap: hubs, corridors, dead ends
LayCorridors(grid, rooms, r, config, width, height) ==
    LaidOut(grid, rooms,
            IF config.add_intersections
            THEN generateIntersections(r, config, rooms, width, height)
            ELSE [intersections |-> <<>>, rng |-> r, ub |-> FALSE],
            config, width, height)

\* noise = new SimplexNoise(): the permutation table of seed 0
DefaultPerm == InitializePermutation(<<0, 0>>)

\* CarveCaves that assigns every cell by its noise sample: grid[y][x] = (n > threshold)
CarveCavesAssign(grid, noisePerm, config) ==
    [c \in DOMAIN grid |->
        IF noise(noisePerm, (c[1] * Scale) \div 10, (c[2] * Scale) \div 10)
               > config.cave_threshold
        THEN 1 ELSE 0]

\* step 5 of generateDungeonMap: the caves overlay
CarveCaves(grid, noisePerm, config) ==
    Carve(grid, {c \in DOMAIN grid :
                    noise(noisePerm, (c[1] * Scale) \div 10, (c[2] * Scale) \div 10)
                        > config.cave_threshold})

\* WallTile that leaves the wall as the tile's only stacked item
WallTileAlone(tile, config) ==
    [ground |-> ItemCreate(config.floor_id), items |-> <<ItemCreate(config.wall_id)>>]

\* the commit pass for a Void cell next to Floor, on the tile with its ground deleted
WallTile(tile, config) ==
    [ground |-> ItemCreate(config.floor_id),
     items |-> IF ItemCreate(config.wall_id) # 0
               THEN Append(tile.items, ItemCreate(config.wall_id))
               ELSE tile.items]

\* CommittedTile without the branch for the Void cells next to Floor
CommittedTileNoWalls(m, pos, grid, x, y, config, width, height) ==
    IF grid[<<x, y>>] = 1
    THEN [GetOrCreateTile(m, pos) EXCEPT !.ground = ItemCreate(config.floor_id)]
    ELSE [GetOrCreateTile(m, pos) EXCEPT !.ground = 0]

\* the body of the commit pass for the cell (x, y): the tile left at pos
CommittedTile(m, pos, grid, x, y, config, width, height) ==
    IF grid[<<x, y>>] = 1
    THEN [GetOrCreateTile(m, pos) EXCEPT !.ground = ItemCreate(config.floor_id)]
    ELSE IF isWallPosition(grid, x, y, width, height)
    THEN WallTile(GetOrCreateTile(m, pos), config)
    ELSE [GetOrCreateTile(m, pos) EXCEPT !.ground = 0]

\* step 6 of generateDungeonMap: the commit pass
Commit(m, grid, config, width, height, offsetX, offsetY) ==
    LET z == config.target_floor
        ps == {CellPos(c, z, offsetX, offsetY) : c \in Cells(width, height)}
        TileAt(p) == CommittedTile(m, p, grid, p[1] - offsetX, p[2] - offsetY,
                                   config, width, height)
    IN  SetTiles(m, ps, TileAt)

(***************************************************************************)
(* The generator object, the host map and one generation call.             *)
(***************************************************************************)
VARIABLES
    pc,          \* where the current call stands; "idle" before it, "done" after it
    call,        \* the arguments of the current call
    callback,    \* whether a progress callback is registered
    rng,         \* MapGenerator::rng
    perm,        \* the permutation table of MapGenerator::noise
    hostMap,     \* the host map
    heightMap,   \* generateIslandMap's heightMap
    tilesPlaced, \* placeTiles' tilesPlaced
    ret,         \* how the call ended: "none" while it runs
    reports,     \* the progress values passed to the callback during the call
    cancelled,   \* whether a callback invocation of the call returned false
    writes,      \* the number of host-map tile writes of the call
    initMap,     \* the host map when the call began
    grid,        \* generateDungeonMap's grid
    rooms,       \* generateDungeonMap's rooms
    round,       \* 1 for a first call, 2 for its repetition on an equal fresh map
    first        \* in round 2: the first call and the host map it left

vars == <<pc, call, callback, rng, perm, hostMap, heightMap, tilesPlaced, ret,
          reports, cancelled, writes, initMap, grid, rooms, round, first>>

\* bounds of the inputs
MaxSide == 3
LargeSide == 32
MaxOrigin == 2
DungeonSide == 7
HubSide == 24
RoomSide == 12

\* seed strings: "7", "42", "seed1", "4294967297"
Seeds == {<<7>>, <<4, 2>>, <<28, 14, 14, 13, 1>>, <<4, 2, 9, 4, 9, 6, 7, 2, 9, 7>>}
\* the seeds of the calls with hubs: with "65" one room is as near to one hub as to
\* the other, and the other room is nearer to the second hub
HubSeeds == Seeds \cup {<<6, 5>>}
DefaultSeed == <<13, 14, 15, 10, 30, 21, 29>>

\* a low threshold, which leaves land on small rectangles, and terrain ids of the caller
CustomIdsConfig ==
    [DefaultIslandConfig EXCEPT !.island_threshold = -(4 * Scale) \div 10,
                                !.water_id = 100, !.ground_id = 200]

IslandConfigs ==
    {DefaultIslandConfig,
     [DefaultIslandConfig EXCEPT !.island_threshold = -(4 * Scale) \div 10,
                                 !.noise_scale = (3 * Scale) \div 10,
                                 !.island_size = Scale],
     CustomIdsConfig,
     [DefaultIslandConfig EXCEPT !.island_threshold = -(4 * Scale) \div 10,
                                 !.enable_cleanup = FALSE],
     [DefaultIslandConfig EXCEPT !.island_threshold = -(4 * Scale) \div 10,
                                 !.target_floor = 6],
     [DefaultIslandConfig EXCEPT !.island_threshold = -Scale,
                                 !.min_land_patch_size = 0, !.max_water_hole_size = 0,
                                 !.smoothing_passes = 1]}

\* host maps a call may start on: an empty map, and a map that holds tiles
OldMap ==
    [p \in {Pos(0, 0, 7), Pos(1, 0, 7), Pos(1, 1, 7), Pos(2, 1, 7), Pos(0, 0, 6), Pos(9, 9, 7)} |->
        IF p = Pos(1, 1, 7) THEN [ground |-> 0, items |-> <<1030>>]
        ELSE IF p[1] = 1 THEN [ground |-> SeaWaterId, items |-> <<>>]
        ELSE [ground |-> GrassId, items |-> <<1030>>]]
InitialMaps == {<<>>, OldMap}

Sides == -1..MaxSide
Origins == {<<0, 0>>, <<MaxOrigin, 1>>}

\* the calls of generateIslandMap that are explored, as
\* <<hasMap, config, width, height, seed, startX, startY>>: every small rectangle,
\* valid or not, under one seed; the largest small rectangle under every seed and
\* origin; and one large rectangle, which is what makes placeTiles report
IslandCalls ==
    {<<TRUE, c, w, h, <<4, 2>>, 0, 0>> : c \in IslandConfigs, w \in Sides, h \in Sides}
    \cup {<<TRUE, c, MaxSide, MaxSide, s, o[1], o[2]>> :
              c \in {DefaultIslandConfig, CustomIdsConfig}, s \in Seeds, o \in Origins}
    \cup {<<FALSE, DefaultIslandConfig, MaxSide, MaxSide, <<7>>, 0, 0>>}
    \cup {<<TRUE, DefaultIslandConfig, LargeSide, LargeSide, <<4, 2>>, 0, 0>>}

\* a small dungeon: two rooms joined by A* corridors, nothing else
SmallDungeonConfig ==
    [DefaultDungeonConfig EXCEPT !.room_count = 2, !.min_room_size = 2,
                                 !.max_room_size = 3, !.corridor_width = 1,
                                 !.generate_caves = FALSE, !.add_dead_ends = FALSE,
                                 !.add_intersections = FALSE, !.intersection_count = 2,
                                 !.intersection_size = 1]

DungeonConfigs ==
    {SmallDungeonConfig,
     [SmallDungeonConfig EXCEPT !.room_count = 0],
     [SmallDungeonConfig EXCEPT !.generate_caves = TRUE, !.cave_threshold = Scale \div 10,
                                !.target_floor = 6],
     [SmallDungeonConfig EXCEPT !.add_dead_ends = TRUE, !.corridor_width = 2],
     [SmallDungeonConfig EXCEPT !.use_smart_pathfinding = FALSE, !.room_count = 3,
                                !.connect_all_rooms = FALSE],
     [SmallDungeonConfig EXCEPT !.add_intersections = TRUE]}

\* three rooms, joined by A* corridors or by L-shaped ones
RoomConfigs ==
    {[SmallDungeonConfig EXCEPT !.room_count = 3],
     [SmallDungeonConfig EXCEPT !.room_count = 3, !.use_smart_pathfinding = FALSE,
                                !.connect_all_rooms = FALSE, !.add_dead_ends = TRUE,
                                !.generate_caves = TRUE,
                                !.cave_threshold = (4 * Scale) \div 10]}

DungeonSides == {-1, 0, DungeonSide - 2, DungeonSide}

\* the calls of generateDungeonMap that are explored: every configuration on every
\* rectangle, valid or not, under one seed; the largest rectangle under every seed and
\* origin; rectangles large enough for hubs; and rectangles with room for three rooms
DungeonCalls ==
    {<<TRUE, c, w, h, <<4, 2>>, 0, 0>> :
        c \in DungeonConfigs, w \in DungeonSides, h \in DungeonSides}
    \cup {<<TRUE, c, DungeonSide, DungeonSide, s, o[1], o[2]>> :
              c \in DungeonConfigs, s \in Seeds, o \in Origins}
    \cup {<<FALSE, SmallDungeonConfig, DungeonSide, DungeonSide, <<7>>, 0, 0>>}
    \cup {<<TRUE, [SmallDungeonConfig EXCEPT !.add_intersections = TRUE], HubSide, HubSide,
             s, 0, 0>> : s \in HubSeeds}
    \cup {<<TRUE, c, RoomSide, RoomSide, s, 0, 0>> : c \in RoomConfigs, s \in Seeds}

NoCall == [mode |-> "none"]

\* MapGenerator::seedRandom: [perm, rng]
seedRandom(seed) ==
    Let(NumericSeed(seed),
        LAMBDA numeric_seed : [perm |-> InitializePermutation(Low32(numeric_seed)),
                               rng |-> RngSeed(MixedSeed(numeric_seed))])

\* MapGenerator::MapGenerator
Init ==
    /\ pc = "idle"
    /\ call = NoCall
    /\ callback = FALSE
    /\ Let(seedRandom(DefaultSeed), LAMBDA seeded : rng = seeded.rng /\ perm = seeded.perm)
    /\ hostMap \in InitialMaps
    /\ heightMap = <<>>
    /\ tilesPlaced = 0
    /\ ret = "none"
    /\ reports = <<>>
    /\ cancelled = FALSE
    /\ writes = 0
    /\ initMap = hostMap
    /\ grid = <<>>
    /\ rooms = <<>>
    /\ round = 1
    /\ first = NoCall

\* MapGenerator::setProgressCallback
SetProgressCallback(cb) ==
    /\ pc = "idle"
    /\ callback' = cb
    /\ UNCHANGED <<pc, call, rng, perm, hostMap, heightMap, tilesPlaced, ret,
                   reports, cancelled, writes, initMap,
                   grid, rooms, round, first>>

\* what the callback may answer, and the report log after an invocation with value v
Responses == IF callback THEN BOOLEAN ELSE {TRUE}
Reported(v) == IF callback THEN Append(reports, v) ELSE reports

\* a return that always reports success
ReturnTrue(r) == pc' = "done" /\ ret' = "true"

\* the call returns r
Return(r) == pc' = "done" /\ ret' = r

\* Reseed that seeds the engine and keeps the noise the generator had
ReseedKeepNoise(seeded) == rng' = seeded.rng /\ perm' = perm

\* the generator's noise and rng become those of seeded, which seedRandom made
Reseed(seeded) == rng' = seeded.rng /\ perm' = seeded.perm

\* a cleanup step leaves r.map after r.writes tile writes
Cleaned(r) == hostMap' = r.map /\ writes' = writes + r.writes

\* the arguments of a call of an entry point
CallOf(mode, hasMap, config, width, height, seed, startX, startY) ==
    [mode |-> mode, hasMap |-> hasMap, config |-> config, width |-> width,
     height |-> height, seed |-> seed, startX |-> startX, startY |-> startY]

\* generateIslandMap, up to the first progress report
GenerateIslandMap(hasMap, config, width, height, seed, startX, startY) ==
    /\ pc = "idle"
    /\ call' = CallOf("island", hasMap, config, width, height, seed, startX, startY)
    /\ reports' = <<>> /\ cancelled' = FALSE /\ writes' = 0 /\ initMap' = hostMap
    /\ IF ~hasMap \/ width <= 0 \/ height <= 0
       THEN /\ Return("false")
            /\ UNCHANGED <<rng, perm>>
       ELSE /\ pc' = "island0" /\ ret' = "none"
            /\ Reseed(seedRandom(seed))
    /\ UNCHANGED <<callback, hostMap, heightMap, tilesPlaced, grid, rooms, round, first>>

\* Step 1: report 0, then generateHeightMap
IslandStep1 ==
    /\ pc = "island0"
    /\ \E resp \in Responses :
        /\ reports' = Reported(0)
        /\ cancelled' = (cancelled \/ ~resp)
        /\ IF resp
           THEN /\ heightMap' = generateHeightMap(perm, call.config, call.width, call.height)
                /\ pc' = "island20" /\ ret' = ret
           ELSE Return("false") /\ heightMap' = heightMap
    /\ UNCHANGED <<call, callback, rng, perm, hostMap, tilesPlaced, writes, initMap,
                   grid, rooms, round, first>>

\* Step 2: report 20, then applyIslandMask
IslandStep2 ==
    /\ pc = "island20"
    /\ \E resp \in Responses :
        /\ reports' = Reported(20)
        /\ cancelled' = (cancelled \/ ~resp)
        /\ IF resp
           THEN /\ heightMap' = applyIslandMask(heightMap, call.config, call.width, call.height)
                /\ pc' = "island40" /\ ret' = ret
           ELSE Return("false") /\ heightMap' = heightMap
    /\ UNCHANGED <<call, callback, rng, perm, hostMap, tilesPlaced, writes, initMap,
                   grid, rooms, round, first>>

\* Step 3: report 40, then placeTiles begins
IslandStep3 ==
    /\ pc = "island40"
    /\ \E resp \in Responses :
        /\ reports' = Reported(40)
        /\ cancelled' = (cancelled \/ ~resp)
        /\ IF resp THEN pc' = "place" /\ ret' = ret ELSE Return("false")
    /\ tilesPlaced' = 0
    /\ UNCHANGED <<call, callback, rng, perm, hostMap, heightMap, writes, initMap,
                   grid, rooms, round, first>>

\* placeTiles: the loop up to and including its next periodic report, or to its end
PlaceTiles ==
    /\ pc = "place"
    /\ LET totalTiles == call.width * call.height
           to == Min(totalTiles, ((tilesPlaced \div TickEvery) + 1) * TickEvery)
       IN  /\ hostMap' = PlaceRange(hostMap, heightMap, call.config, call.width,
                                    call.startX, call.startY, tilesPlaced, to)
           /\ tilesPlaced' = to
           /\ writes' = writes + (to - tilesPlaced)
           /\ IF callback /\ to % TickEvery = 0
              THEN \E resp \in BOOLEAN :
                    /\ reports' = Append(reports, TickProgress(to, totalTiles))
                    /\ cancelled' = (cancelled \/ ~resp)
                    /\ pc' = IF resp /\ to < totalTiles THEN "place" ELSE "placed"
              ELSE /\ pc' = IF to < totalTiles THEN "place" ELSE "placed"
                   /\ UNCHANGED <<reports, cancelled>>
    /\ UNCHANGED <<call, callback, rng, perm, heightMap, ret, initMap,
                   grid, rooms, round, first>>

\* Step 4: with cleanup enabled, report 70, then cleanupTerrain up to its report 80
IslandStep4 ==
    /\ pc = "placed"
    /\ IF call.config.enable_cleanup
       THEN \E resp \in Responses :
            /\ reports' = Reported(70)
            /\ cancelled' = (cancelled \/ ~resp)
            /\ IF resp
               THEN /\ Cleaned(IF call.config.min_land_patch_size > 0
                               THEN removeSmallPatches(hostMap, call.config.ground_id,
                                                       call.config.min_land_patch_size,
                                                       call.width, call.height,
                                                       call.startX, call.startY)
                               ELSE [map |-> hostMap, writes |-> 0])
                    /\ pc' = "cleanup80" /\ ret' = ret
               ELSE Return("false") /\ UNCHANGED <<hostMap, writes>>
       ELSE /\ pc' = "island100"
            /\ UNCHANGED <<reports, cancelled, hostMap, writes, ret>>
    /\ UNCHANGED <<call, callback, rng, perm, heightMap, tilesPlaced, initMap,
                   grid, rooms, round, first>>

\* cleanupTerrain: report 80, then fillSmallHoles
Cleanup80 ==
    /\ pc = "cleanup80"
    /\ \E resp \in Responses :
        /\ reports' = Reported(80)
        /\ cancelled' = (cancelled \/ ~resp)
        /\ IF resp
           THEN /\ Cleaned(IF call.config.max_water_hole_size > 0
                           THEN fillSmallHoles(hostMap, call.config.water_id,
                                               call.config.ground_id,
                                               call.config.max_water_hole_size,
                                               call.width, call.height,
                                               call.startX, call.startY)
                           ELSE [map |-> hostMap, writes |-> 0])
                /\ pc' = "cleanup90"
           ELSE pc' = "island100" /\ UNCHANGED <<hostMap, writes>>
    /\ UNCHANGED <<call, callback, rng, perm, heightMap, tilesPlaced, ret, initMap,
                   grid, rooms, round, first>>

\* cleanupTerrain: report 90, then smoothCoastline
Cleanup90 ==
    /\ pc = "cleanup90"
    /\ \E resp \in Responses :
        /\ reports' = Reported(90)
        /\ cancelled' = (cancelled \/ ~resp)
        /\ IF resp
           THEN Cleaned(IF call.config.smoothing_passes > 0
                        THEN smoothCoastline(hostMap, call.config, call.width, call.height,
                                             call.startX, call.startY)
                        ELSE [map |-> hostMap, writes |-> 0])
           ELSE UNCHANGED <<hostMap, writes>>
    /\ pc' = "island100"
    /\ UNCHANGED <<call, callback, rng, perm, heightMap, tilesPlaced, ret, initMap,
                   grid, rooms, round, first>>

\* Complete: report 100, whose answer is not read, and return true
IslandComplete ==
    /\ pc = "island100"
    /\ \E resp \in Responses :
        /\ reports' = Reported(100)
        /\ cancelled' = (cancelled \/ ~resp)
    /\ Return("true")
    /\ UNCHANGED <<call, callback, rng, perm, hostMap, heightMap, tilesPlaced, writes, initMap,
                   grid, rooms, round, first>>

\* generateDungeonMap after generateRooms returned gr: the rooms are carved
RoomsCarved(gr, width, height) ==
    /\ rng' = gr.rng
    /\ IF gr.ub
       THEN Return("undefined") /\ UNCHANGED <<grid, rooms>>
       ELSE /\ rooms' = gr.rooms
            /\ grid' = Carve(NewGrid(width, height), AllRoomCells(gr.rooms))
            /\ pc' = "dungeon30" /\ ret' = "none"

\* GridMade with generateRooms drawing from the engine as the last call left it
GridMadeUnseeded(seeded, config, width, height) ==
    /\ perm' = DefaultPerm
    /\ IF width < 0 \/ height < 0
       THEN /\ Return("threw")
            /\ rng' = seeded.rng
            /\ UNCHANGED <<grid, rooms>>
       ELSE RoomsCarved(generateRooms(rng, config, width, height), width, height)

\* generateDungeonMap after seedRandom returned seeded: the noise is replaced, the
\* Grid allocated, whose constructor throws std::length_error for a negative size
GridMade(seeded, config, width, height) ==
    /\ perm' = DefaultPerm
    /\ IF width < 0 \/ height < 0
       THEN /\ Return("threw")
            /\ rng' = seeded.rng
            /\ UNCHANGED <<grid, rooms>>
       ELSE RoomsCarved(generateRooms(seeded.rng, config, width, height), width, height)

\* generateDungeonMap, up to the progress report 30: seeding, the Grid, the rooms
GenerateDungeonMap(hasMap, config, width, height, seed, startX, startY) ==
    /\ pc = "idle"
    /\ call' = CallOf("dungeon", hasMap, config, width, height, seed, startX, startY)
    /\ reports' = <<>> /\ cancelled' = FALSE /\ writes' = 0 /\ initMap' = hostMap
    /\ IF ~hasMap
       THEN /\ Return("false")
            /\ UNCHANGED <<rng, perm, grid, rooms>>
       ELSE GridMade(seedRandom(seed), config, width, height)
    /\ UNCHANGED <<callback, hostMap, heightMap, tilesPlaced, round, first>>

\* steps 2 to 4 of generateDungeonMap left st
CorridorsLaid(st) ==
    /\ rng' = st.rng
    /\ IF st.ub
       THEN Return("undefined") /\ grid' = grid
       ELSE grid' = st.grid /\ pc' = "dungeon60" /\ ret' = ret

\* report 30, then hubs, corridors and dead ends
Dungeon30 ==
    /\ pc = "dungeon30"
    /\ \E resp \in Responses :
        /\ reports' = Reported(30)
        /\ cancelled' = (cancelled \/ ~resp)
        /\ IF resp
           THEN CorridorsLaid(LayCorridors(grid, rooms, rng, call.config, call.width,
                                           call.height))
           ELSE Return("false") /\ UNCHANGED <<rng, grid>>
    /\ UNCHANGED <<call, callback, perm, hostMap, heightMap, tilesPlaced, writes, initMap,
                   rooms, round, first>>

\* report 60, then the caves overlay
Dungeon60 ==
    /\ pc = "dungeon60"
    /\ \E resp \in Responses :
        /\ reports' = Reported(60)
        /\ cancelled' = (cancelled \/ ~resp)
        /\ IF resp
           THEN /\ grid' = IF call.config.generate_caves
                           THEN CarveCaves(grid, perm, call.config)
                           ELSE grid
                /\ pc' = "dungeon80" /\ ret' = ret
           ELSE Return("false") /\ grid' = grid
    /\ UNCHANGED <<call, callback, rng, perm, hostMap, heightMap, tilesPlaced, writes,
                   initMap, rooms, round, first>>

\* Dungeon80 with the commit pass run before the answer to report 80 is looked at
Dungeon80CommitFirst ==
    /\ pc = "dungeon80"
    /\ \E resp \in Responses :
        /\ reports' = Reported(80)
        /\ cancelled' = (cancelled \/ ~resp)
        /\ hostMap' = Commit(hostMap, grid, call.config, call.width, call.height,
                             call.startX, call.startY)
        /\ writes' = writes + call.width * call.height
        /\ IF resp THEN Return("true") ELSE Return("false")
    /\ UNCHANGED <<call, callback, rng, perm, heightMap, tilesPlaced, initMap, grid, rooms,
                   round, first>>

\* report 80, then the commit pass, and return true
Dungeon80 ==
    /\ pc = "dungeon80"
    /\ \E resp \in Responses :
        /\ reports' = Reported(80)
        /\ cancelled' = (cancelled \/ ~resp)
        /\ IF resp
           THEN /\ hostMap' = Commit(hostMap, grid, call.config, call.width, call.height,
                                     call.startX, call.startY)
                /\ writes' = writes + call.width * call.height
                /\ Return("true")
           ELSE Return("false") /\ UNCHANGED <<hostMap, writes>>
    /\ UNCHANGED <<call, callback, rng, perm, heightMap, tilesPlaced, initMap, grid, rooms,
                   round, first>>

\* after a call that ran to its end without a cancellation, the same generator is
\* given an equal fresh host map, on which the call is repeated
Repeat ==
    /\ pc = "done" /\ round = 1 /\ ret = "true" /\ ~cancelled
    /\ first' = [call |-> call, map |-> hostMap]
    /\ round' = 2
    /\ hostMap' = initMap
    /\ pc' = "idle"
    /\ UNCHANGED <<call, callback, rng, perm, heightMap, tilesPlaced, ret, reports,
                   cancelled, writes, initMap, grid, rooms>>

\* the calls open to the caller: any call in round 1, the first call's in round 2
Open(mode, a) ==
    IF round = 1 THEN TRUE
    ELSE first.call = CallOf(mode, a[1], a[2], a[3], a[4], a[5], a[6], a[7])

IslandNext ==
    \/ \E cb \in BOOLEAN : SetProgressCallback(cb)
    \/ \E a \in IslandCalls :
          Open("island", a) /\ GenerateIslandMap(a[1], a[2], a[3], a[4], a[5], a[6], a[7])
    \/ IslandStep1
    \/ IslandStep2
    \/ IslandStep3
    \/ PlaceTiles
    \/ IslandStep4
    \/ Cleanup80
    \/ Cleanup90
    \/ IslandComplete
    \/ Repeat

DungeonNext ==
    \/ \E cb \in BOOLEAN : SetProgressCallback(cb)
    \/ \E a \in DungeonCalls :
          Open("dungeon", a) /\ GenerateDungeonMap(a[1], a[2], a[3], a[4], a[5], a[6], a[7])
    \/ Dungeon30
    \/ Dungeon60
    \/ Dungeon80
    \/ Repeat

Next == IslandNext \/ DungeonNext

\* after a call, however it ended, the same generator is given the host map as it
\* was before the call, for a second call
Reuse ==
    /\ pc = "done" /\ round = 1
    /\ first' = [call |-> call, map |-> hostMap]
    /\ round' = 2
    /\ hostMap' = initMap
    /\ pc' = "idle"
    /\ UNCHANGED <<call, callback, rng, perm, heightMap, tilesPlaced, ret, reports,
                   cancelled, writes, initMap, grid, rooms>>

ReuseSeeds == {<<7>>, <<4, 2>>}
\* the calls made on a generator that is used twice
ReuseIslandCalls ==
    {<<TRUE, CustomIdsConfig, MaxSide, MaxSide, s, 0, 0>> : s \in ReuseSeeds}
ReuseDungeonCalls ==
    {<<TRUE, c, DungeonSide, DungeonSide, s, 0, 0>> :
        c \in {SmallDungeonConfig,
               [SmallDungeonConfig EXCEPT !.generate_caves = TRUE,
                                          !.cave_threshold = (4 * Scale) \div 10,
                                          !.add_dead_ends = TRUE]},
        s \in ReuseSeeds}

\* two calls, any two, one after the other on one generator
ReuseNext ==
    \/ \E cb \in BOOLEAN : SetProgressCallback(cb)
    \/ \E a \in ReuseIslandCalls :
          GenerateIslandMap(a[1], a[2], a[3], a[4], a[5], a[6], a[7])
    \/ \E a \in ReuseDungeonCalls :
          GenerateDungeonMap(a[1], a[2], a[3], a[4], a[5], a[6], a[7])
    \/ IslandStep1
    \/ IslandStep2
    \/ IslandStep3
    \/ PlaceTiles
    \/ IslandStep4
    \/ Cleanup80
    \/ Cleanup90
    \/ IslandComplete
    \/ Dungeon30
    \/ Dungeon60
    \/ Dungeon80
    \/ Reuse

Spec == Init /\ [][Next]_vars
IslandSpec == Init /\ [][IslandNext]_vars
DungeonSpec == Init /\ [][DungeonNext]_vars
ReuseSpec == Init /\ [][ReuseNext]_vars

(***************************************************************************)
(* removeSmallPatches on its own: run twice in succession, with the same   *)
(* parameters, on every map of two ground ids over a small rectangle.      *)
(***************************************************************************)
PatchSide == 3
PatchHeight == 2 + 1
PatchOrigin == <<1, 0>>
\* the maps that hold a tile with a ground of grass or sea water at every position of
\* the rectangle on the floor removeSmallPatches works on
PatchMaps ==
    [{CellPos(c, PatchFloor, PatchOrigin[1], PatchOrigin[2]) : c \in Cells(PatchSide, PatchHeight)}
        -> {[ground |-> GrassId, items |-> <<>>], [ground |-> SeaWaterId, items |-> <<>>]}]

PatchInit ==
    /\ pc = "patch"
    /\ call = NoCall
    /\ callback = FALSE
    /\ rng = 0 /\ perm = <<>>
    /\ hostMap \in PatchMaps
    /\ heightMap = <<>>
    /\ tilesPlaced = 0
    /\ ret = "none"
    /\ reports = <<>>
    /\ cancelled = FALSE
    /\ writes = 0
    /\ initMap = hostMap
    /\ grid = <<>>
    /\ rooms = <<>>
    /\ round = 1
    /\ first = NoCall

\* a run of removeSmallPatches on the host map
RemoveSmallPatches(tile_id, min_size, width, height) ==
    /\ pc = "patch"
    /\ call' = [mode |-> "patch", tile_id |-> tile_id, min_size |-> min_size,
                width |-> width, height |-> height,
                startX |-> PatchOrigin[1], startY |-> PatchOrigin[2]]
    /\ Cleaned(removeSmallPatches(hostMap, tile_id, min_size, width, height,
                                  PatchOrigin[1], PatchOrigin[2]))
    /\ pc' = "patched"
    /\ UNCHANGED <<callback, rng, perm, heightMap, tilesPlaced, ret, reports, cancelled,
                   initMap, grid, rooms, round, first>>

\* the run that follows it, with the same parameters
RemoveSmallPatchesAgain ==
    /\ pc = "patched"
    /\ first' = [map |-> hostMap]
    /\ Let(removeSmallPatches(hostMap, call.tile_id, call.min_size, call.width, call.height,
                              call.startX, call.startY),
           LAMBDA r : hostMap' = r.map /\ writes' = r.writes)
    /\ pc' = "patched2"
    /\ UNCHANGED <<call, callback, rng, perm, heightMap, tilesPlaced, ret, reports,
                   cancelled, initMap, grid, rooms, round>>

PatchNext ==
    \/ \E tile_id \in {GrassId, SeaWaterId}, min_size \in {2, 4},
          width \in {PatchSide - 1, PatchSide} :
          RemoveSmallPatches(tile_id, min_size, width, PatchHeight)
    \/ RemoveSmallPatchesAgain

PatchSpec == PatchInit /\ [][PatchNext]_vars

(***************************************************************************)
(* findShortestPath on its own: on every Grid over a small rectangle, from *)
(* a corner and from an inner cell to every cell.                          *)
(***************************************************************************)
PathSide == 3
PathHeight == 2 + 1
PathStarts == {<<0, 0>>, <<1, 1>>}

PathInit ==
    /\ pc = "path"
    /\ call = NoCall
    /\ callback = FALSE
    /\ rng = 0 /\ perm = <<>>
    /\ hostMap = <<>>
    /\ heightMap = <<>>
    /\ tilesPlaced = 0
    /\ ret = "none"
    /\ reports = <<>>
    /\ cancelled = FALSE
    /\ writes = 0
    /\ initMap = hostMap
    /\ grid \in [Cells(PathSide, PathHeight) -> {0, 1}]
    /\ rooms = <<>>
    /\ round = 1
    /\ first = NoCall

\* a call of findShortestPath on the Grid: ret is the path it returns
FindShortestPath(x1, y1, x2, y2) ==
    /\ pc = "path"
    /\ call' = [mode |-> "path", x1 |-> x1, y1 |-> y1, x2 |-> x2, y2 |-> y2,
                width |-> PathSide, height |-> PathHeight]
    /\ ret' = findShortestPath(grid, x1, y1, x2, y2, PathSide, PathHeight)
    /\ pc' = "pathed"
    /\ UNCHANGED <<callback, rng, perm, hostMap, heightMap, tilesPlaced, reports, cancelled,
                   writes, initMap, grid, rooms, round, first>>

\* left is what createSmartCorridor left of [grid, rng, ub]
CorridorMade(left) ==
    /\ first' = [grid |-> grid]
    /\ grid' = left.grid
    /\ rng' = left.rng
    /\ ret' = IF left.ub THEN "undefined" ELSE "none"

\* a call of createSmartCorridor on the Grid, with smart pathfinding enabled
CreateSmartCorridor(x1, y1, x2, y2) ==
    /\ pc = "path"
    /\ call' = [mode |-> "corridor", x1 |-> x1, y1 |-> y1, x2 |-> x2, y2 |-> y2,
                width |-> PathSide, height |-> PathHeight]
    /\ CorridorMade(createSmartCorridor([grid |-> grid, rng |-> rng, ub |-> FALSE],
                                        x1, y1, x2, y2, SmallDungeonConfig,
                                        PathSide, PathHeight))
    /\ pc' = "corridored"
    /\ UNCHANGED <<callback, perm, hostMap, heightMap, tilesPlaced, reports, cancelled,
                   writes, initMap, rooms, round>>

PathNext ==
    \/ \E s \in PathStarts, g \in Cells(PathSide, PathHeight) :
          FindShortestPath(s[1], s[2], g[1], g[2])
    \/ \E g \in Cells(PathSide, PathHeight) : CreateSmartCorridor(1, 1, g[1], g[2])

PathSpec == PathInit /\ [][PathNext]_vars

(***************************************************************************)
(* SimplexNoise on its own: samples of noise and fractal on a constructed   *)
(* SimplexNoise.                                                            *)
(***************************************************************************)
NoiseSpan == 6
NoiseOctaves == 3
NoiseSeeds == {<<0, 0>>, <<7, 0>>, <<4, 2>>}
\* sample coordinates, a third of a unit apart
NoiseCoords == {(k * Scale) \div 3 : k \in (-NoiseSpan)..NoiseSpan}
\* amplitude decays whose amplitude sums are not zero within NoiseOctaves octaves
NoisePersistences == {-(Scale \div 2), Scale \div 2, Scale, 2 * Scale}

\* SimplexNoise::SimplexNoise
NoiseInit ==
    /\ pc = "noise"
    /\ call = NoCall
    /\ callback = FALSE
    /\ rng = 0
    /\ perm \in {InitializePermutation(s) : s \in NoiseSeeds}
    /\ hostMap = <<>>
    /\ heightMap = <<>>
    /\ tilesPlaced = 0
    /\ ret = "none"
    /\ reports = <<>>
    /\ cancelled = FALSE
    /\ writes = 0
    /\ initMap = hostMap
    /\ grid = <<>>
    /\ rooms = <<>>
    /\ round = 1
    /\ first = NoCall

\* a call of SimplexNoise::noise: ret is the value it returns
Noise(xin, yin) ==
    /\ pc = "noise"
    /\ call' = [mode |-> "noise", x |-> xin, y |-> yin]
    /\ ret' = noise(perm, xin, yin)
    /\ pc' = "sampled"
    /\ UNCHANGED <<callback, rng, perm, hostMap, heightMap, tilesPlaced, reports, cancelled,
                   writes, initMap, grid, rooms, round, first>>

\* a call of SimplexNoise::fractal: ret is the value it returns
Fractal(x, y, octaves, persistence, lacunarity) ==
    /\ pc = "noise"
    /\ call' = [mode |-> "fractal", x |-> x, y |-> y, octaves |-> octaves,
                persistence |-> persistence, lacunarity |-> lacunarity]
    /\ ret' = fractal(perm, x, y, octaves, persistence, lacunarity)
    /\ pc' = "sampled"
    /\ UNCHANGED <<callback, rng, perm, hostMap, heightMap, tilesPlaced, reports, cancelled,
                   writes, initMap, grid, rooms, round, first>>

NoiseNext ==
    \/ \E x \in NoiseCoords, y \in NoiseCoords : Noise(x, y)
    \/ \E x \in NoiseCoords, y \in NoiseCoords, o \in 1..NoiseOctaves,
          p \in NoisePersistences :
           Fractal(x, y, o, p, 2 * Scale)

NoiseSpec == NoiseInit /\ [][NoiseNext]_vars

(***************************************************************************)
(* smoothCoastline on its own, cell by cell as its loops run: a pass takes  *)
(* the snapshot tileIds, then visits the interior cells in an order.        *)
(***************************************************************************)
SmoothSide == 4
SmoothHeight == 2 + 1
SmoothPasses == 2
\* the maps that hold a tile with a ground of grass or sea water at every position of
\* the rectangle on the default target floor
SmoothMaps ==
    [{CellPos(c, DefaultIslandConfig.target_floor, 0, 0) : c \in Cells(SmoothSide, SmoothHeight)}
        -> {[ground |-> GrassId, items |-> <<>>], [ground |-> SeaWaterId, items |-> <<>>]}]

\* the copy tileIds of a pass
TileIds(m, z, width, height, offsetX, offsetY) ==
    [c \in Cells(width, height) |-> GroundId(m, CellPos(c, z, offsetX, offsetY))]

\* InteriorCells with loops that start at 0 and end at width - 1 and height - 1
InteriorCellsAll(width, height) ==
    [k \in 1..(width * height) |-> <<(k - 1) % width, (k - 1) \div width>>]
\* the cells the loops of a pass visit, in their order: rows 1 .. height - 2, in each
\* row columns 1 .. width - 2
InteriorCells(width, height) ==
    [k \in 1..(Max(width - 2, 0) * Max(height - 2, 0)) |->
        <<1 + ((k - 1) % (width - 2)), 1 + ((k - 1) \div (width - 2))>>]
Reversed(seq) == [k \in 1..Len(seq) |-> seq[Len(seq) + 1 - k]]

\* neighborId read from the map as the pass has left it so far
NeighbourIdLive(tileIds, m, n, z, offsetX, offsetY) == GroundId(m, CellPos(n, z, offsetX, offsetY))
\* uint16_t neighborId = tileIds[ny][nx]
NeighbourId(tileIds, m, n, z, offsetX, offsetY) == tileIds[n]

\* the number of neighbours of c in the rectangle whose id is id and is not other
NeighbourCount(tileIds, m, c, id, other, config, width, height, offsetX, offsetY) ==
    Cardinality({n \in Neighbours8(c) :
                    /\ InRect(n, width, height)
                    /\ NeighbourId(tileIds, m, n, config.target_floor, offsetX, offsetY) = id
                    /\ id # other})

\* newId for currentId, waterCount and landCount
MajorityId(currentId, waterCount, landCount, config) ==
    IF currentId = config.water_id /\ landCount > waterCount THEN config.ground_id
    ELSE IF currentId = config.ground_id /\ waterCount > landCount THEN config.water_id
    ELSE currentId

\* newId of the cell c
NewIdOf(tileIds, m, c, config, width, height, offsetX, offsetY) ==
    MajorityId(tileIds[c],
               NeighbourCount(tileIds, m, c, config.water_id, 0, config, width, height,
                              offsetX, offsetY),
               NeighbourCount(tileIds, m, c, config.ground_id, config.water_id, config,
                              width, height, offsetX, offsetY),
               config)

\* "Update tile if changed", for the tile at pos
SmoothedTile(m, pos, currentId, newId) ==
    IF newId # currentId /\ HasTile(m, pos)
    THEN [m EXCEPT ![pos] = [m[pos] EXCEPT !.ground = ItemCreate(newId)]]
    ELSE m

\* the body of the loops of a pass for the cell c
SmoothCell(m, tileIds, c, config, width, height, offsetX, offsetY) ==
    SmoothedTile(m, CellPos(c, config.target_floor, offsetX, offsetY), tileIds[c],
                 NewIdOf(tileIds, m, c, config, width, height, offsetX, offsetY))

\* the loops of a pass from the k-th cell of order on
RECURSIVE SmoothCells(_, _, _, _, _, _, _, _, _)
SmoothCells(m, tileIds, order, k, config, width, height, offsetX, offsetY) ==
    IF k > Len(order) THEN m
    ELSE Let(SmoothCell(m, tileIds, order[k], config, width, height, offsetX, offsetY),
             LAMBDA m2 : Strict(m2, SmoothCells(m2, tileIds, order, k + 1, config, width,
                                                height, offsetX, offsetY)))

\* one pass that visits the cells in order
SmoothPassIn(m, order, config, width, height, offsetX, offsetY) ==
    SmoothCells(m, TileIds(m, config.target_floor, width, height, offsetX, offsetY),
                order, 1, config, width, height, offsetX, offsetY)

\* the passes of smoothCoastline, passes of them left
RECURSIVE SmoothPassesIn(_, _, _, _, _, _, _)
SmoothPassesIn(m, passes, config, width, height, offsetX, offsetY) ==
    IF passes <= 0 THEN m
    ELSE SmoothPassesIn(SmoothPassIn(m, InteriorCells(width, height), config, width,
                                     height, offsetX, offsetY),
                        passes - 1, config, width, height, offsetX, offsetY)

SmoothInit ==
    /\ pc = "smooth"
    /\ call = NoCall
    /\ callback = FALSE
    /\ rng = 0 /\ perm = <<>>
    /\ hostMap \in SmoothMaps
    /\ heightMap = <<>>
    /\ tilesPlaced = 0
    /\ ret = "none"
    /\ reports = <<>>
    /\ cancelled = FALSE
    /\ writes = 0
    /\ initMap = hostMap
    /\ grid = <<>>
    /\ rooms = <<>>
    /\ round = 1
    /\ first = NoCall

\* step 3 of cleanupTerrain with smoothing_passes = passes
SmoothCoastline(passes) ==
    /\ pc = "smooth"
    /\ call' = [mode |-> "smooth", passes |-> passes, reversed |-> FALSE,
                config |-> [DefaultIslandConfig EXCEPT !.smoothing_passes = passes],
                width |-> SmoothSide, height |-> SmoothHeight]
    /\ hostMap' = IF passes > 0
                  THEN SmoothPassesIn(hostMap, passes, DefaultIslandConfig, SmoothSide,
                                      SmoothHeight, 0, 0)
                  ELSE hostMap
    /\ pc' = "smoothed"
    /\ UNCHANGED <<callback, rng, perm, heightMap, tilesPlaced, ret, reports, cancelled,
                   writes, initMap, grid, rooms, round, first>>

\* one pass whose loops visit the interior cells last cell first
SmoothReversed ==
    /\ pc = "smooth"
    /\ call' = [mode |-> "smooth", passes |-> 1, reversed |-> TRUE,
                config |-> [DefaultIslandConfig EXCEPT !.smoothing_passes = 1],
                width |-> SmoothSide, height |-> SmoothHeight]
    /\ hostMap' = SmoothPassIn(hostMap, Reversed(InteriorCells(SmoothSide, SmoothHeight)),
                               DefaultIslandConfig, SmoothSide, SmoothHeight, 0, 0)
    /\ pc' = "smoothed"
    /\ UNCHANGED <<callback, rng, perm, heightMap, tilesPlaced, ret, reports, cancelled,
                   writes, initMap, grid, rooms, round, first>>

SmoothNext ==
    \/ \E passes \in 0..SmoothPasses : SmoothCoastline(passes)
    \/ SmoothReversed

SmoothSpec == SmoothInit /\ [][SmoothNext]_vars

(***************************************************************************)
(* The dungeon page of ProceduralMapDialog: OnGenerate makes a generator,  *)
(* gives it a callback that always answers true, and calls                 *)
(* generateDungeonMap with what the controls hold.                         *)
(***************************************************************************)
\* the ranges of the spin controls: width and height from 16, min room size 3..20,
\* max room size 3..30
DngSideMin == 16
DngRoomSizeMin == 3
DngMinRoomSizeMax == 20
DngMaxRoomSizeMax == 30
\* the largest width and height, and the largest room count, that are explored
DialogSide == 24
DialogRooms == 2
\* the centre of the view, which OnGenerate puts in the middle of the rectangle
DialogCentre == <<12, 12>>
\* what the controls may hold: [width, height, room_count, min_room_size,
\* max_room_size, corridor_width, generate_caves, seed]; the smallest and the largest
\* of each range, and the default room sizes 5 and 12
DialogControls ==
    [width : {DngSideMin, DialogSide - 4, DialogSide},
     height : {DngSideMin, DialogSide},
     room_count : {1, DialogRooms},
     min_room_size : {DngRoomSizeMin, DefaultDungeonConfig.min_room_size,
                      DngMinRoomSizeMax},
     max_room_size : {DngRoomSizeMin, DefaultDungeonConfig.max_room_size,
                      DngMaxRoomSizeMax},
     corridor_width : {DefaultDungeonConfig.corridor_width},
     generate_caves : BOOLEAN,
     seed : {<<4, 2>>, <<7>>}]

\* ProceduralMapDialog::GetDungeonConfiguration; the ids are the controls' defaults
GetDungeonConfiguration(ctl) ==
    [DefaultDungeonConfig EXCEPT !.room_count = ctl.room_count,
                                 !.min_room_size = ctl.min_room_size,
                                 !.max_room_size = ctl.max_room_size,
                                 !.corridor_width = ctl.corridor_width,
                                 !.generate_caves = ctl.generate_caves]

\* OnGenerate's generator after setProgressCallback
DialogInit ==
    /\ pc = "idle"
    /\ call = NoCall
    /\ callback = TRUE
    /\ Let(seedRandom(DefaultSeed), LAMBDA seeded : rng = seeded.rng /\ perm = seeded.perm)
    /\ hostMap \in InitialMaps
    /\ heightMap = <<>>
    /\ tilesPlaced = 0
    /\ ret = "none"
    /\ reports = <<>>
    /\ cancelled = FALSE
    /\ writes = 0
    /\ initMap = hostMap
    /\ grid = <<>>
    /\ rooms = <<>>
    /\ round = 1
    /\ first = NoCall

\* ProceduralMapDialog::OnGenerate on the dungeon page, up to the progress report 30
OnGenerate(ctl) ==
    /\ round = 1 /\ call = NoCall
    /\ GenerateDungeonMap(TRUE, GetDungeonConfiguration(ctl), ctl.width, ctl.height,
                          ctl.seed, DialogCentre[1] - ctl.width \div 2,
                          DialogCentre[2] - ctl.height \div 2)

\* the dialog's callback: wxYield(); return true
AnsweredTrue == cancelled' = FALSE

DialogNext ==
    \/ \E ctl \in DialogControls : OnGenerate(ctl)
    \/ Dungeon30 /\ AnsweredTrue
    \/ Dungeon60 /\ AnsweredTrue
    \/ Dungeon80 /\ AnsweredTrue

DialogSpec == DialogInit /\ [][DialogNext]_vars

(***************************************************************************)
(* Properties.                                                             *)
(***************************************************************************)
\* the cells of the current call's rectangle, and their positions on its target floor
CallCells == Cells(call.width, call.height)
TargetPos(c) == CellPos(c, call.config.target_floor, call.startX, call.startY)
TargetPositions == {TargetPos(c) : c \in CallCells}
Returned == pc = "done"
Island == call.mode = "island"
Dungeon == call.mode = "dungeon"

\* C1: whenever the progress callback answered false during a call, the entry point
\* returns false.
CancelReturnsFalse == (Returned /\ cancelled) => ret = "false"

\* C2: once the progress callback has answered false, the call writes no host-map
\* tile and does not invoke the callback again before it returns.
QuietAfterCancel ==
    [][(cancelled /\ ~Returned) => (writes' = writes /\ reports' = reports)]_vars

\* C3: a call with a null map, or with width <= 0 or height <= 0, returns false and
\* writes nothing to the host map.
InvalidInputFails ==
    (Returned /\ (~call.hasMap \/ call.width <= 0 \/ call.height <= 0))
        => (ret = "false" /\ writes = 0 /\ hostMap = initMap)

\* C4: when the callback answers false at its first invocation of a call, the call
\* ends there: it returns false and has written nothing to the host map.
FirstCancelFails ==
    [][(Len(reports) = 0 /\ Len(reports') = 1 /\ cancelled')
          => (pc' = "done" /\ ret' = "false" /\ writes' = 0 /\ hostMap' = initMap')]_vars
FirstCancelReached == Returned /\ Dungeon /\ cancelled /\ Len(reports) = 1

\* C5: the progress values reported during one call never decrease and lie in 0..100,
\* the periodic values of placeTiles included.
ProgressMonotone ==
    \A i \in 1..Len(reports) :
        /\ reports[i] \in 0..100
        /\ i > 1 => reports[i - 1] <= reports[i]
ProgressWithTick ==
    /\ Returned /\ Island /\ ret = "true" /\ Len(reports) = 8
    /\ reports[4] > 40 /\ reports[4] < 70

\* C6: two calls with the same seed, config, width, height and origin on equal fresh
\* host maps leave the same ground ids, when no callback answer cancels either call.
GroundLayout(m) == [p \in DOMAIN m |-> m[p].ground]
Deterministic ==
    (round = 2 /\ Returned /\ ret = "true" /\ ~cancelled)
        => GroundLayout(hostMap) = GroundLayout(first.map)
RepeatedDungeon ==
    /\ round = 2 /\ Returned /\ ret = "true" /\ ~cancelled /\ Dungeon
    /\ Len(rooms) = 2 /\ hostMap # initMap

\* C7: after generateIslandMap returns true, every tile of the target rectangle on
\* the target floor has a ground of config.water_id or config.ground_id, whatever
\* the two ids are.
IslandGroundIds ==
    (Returned /\ Island /\ ret = "true" /\ ~cancelled)
        => \A p \in TargetPositions :
              GroundId(hostMap, p) \in {call.config.water_id, call.config.ground_id}

\* C8 as stated: after generateDungeonMap returns true, every tile of the target
\* rectangle on the target floor has a ground.
DungeonAllGround ==
    (Returned /\ Dungeon /\ ret = "true")
        => \A p \in TargetPositions : HasGround(hostMap, p)

\* whether c is Floor or has a Floor cell among the cells at most one step away in
\* each coordinate
NearFloor(c) ==
    \E d \in CallCells :
        grid[d] = 1 /\ Abs(d[1] - c[1]) <= 1 /\ Abs(d[2] - c[2]) <= 1

\* C8, amended: after generateDungeonMap returns true, a tile of the target rectangle
\* has a ground, of floor_id, exactly when its cell is Floor or has a Floor cell among
\* its eight neighbours; the tiles of the other Void cells exist without a ground.
DungeonGroundNearFloor ==
    (Returned /\ Dungeon /\ ret = "true")
        => \A c \in CallCells :
              /\ HasTile(hostMap, TargetPos(c))
              /\ GroundId(hostMap, TargetPos(c))
                    = IF NearFloor(c) THEN call.config.floor_id ELSE 0
DungeonWithBareCell ==
    /\ Returned /\ Dungeon /\ ret = "true"
    /\ \E c \in CallCells : ~NearFloor(c)
    /\ \E c \in CallCells : grid[c] = 0 /\ NearFloor(c)

\* C9: when placeTiles has run to its end without cancellation, every cell of the
\* rectangle has a ground, of water_id where heightMap[y][x] < (island_threshold + 1) / 2
\* and of ground_id elsewhere, whatever ground the tile had before.
PlacedByThreshold ==
    (pc = "placed" /\ ~cancelled)
        => \A c \in CallCells :
              GroundId(hostMap, TargetPos(c))
                  = IF heightMap[c[2]][c[1]] < (call.config.island_threshold + Scale) \div 2
                    THEN call.config.water_id
                    ELSE call.config.ground_id
PlacedOverOldGround ==
    /\ pc = "placed" /\ ~cancelled
    /\ \E c \in CallCells : GroundId(hostMap, TargetPos(c)) = call.config.ground_id
    /\ \E c \in CallCells :
          /\ GroundId(hostMap, TargetPos(c)) = call.config.water_id
          /\ GroundId(initMap, TargetPos(c)) = GrassId

\* C10: a call leaves every tile outside its rectangle on config.target_floor as it
\* was, and creates none there.
FrameOutsideTarget ==
    call.mode # "none"
        => \A p \in (DOMAIN hostMap \cup DOMAIN initMap) \ TargetPositions :
              p \in DOMAIN initMap /\ p \in DOMAIN hostMap /\ hostMap[p] = initMap[p]

\* the states of a dungeon call in which generateRooms has returned its list, rooms
RoomsReturned == Dungeon /\ pc \in {"dungeon30", "dungeon60", "dungeon80"}

\* C11: when min_room_size <= max_room_size and max_room_size + 3 <= min(width, height),
\* every room generateRooms accepted has its cells inside [1, width-2] x [1, height-2],
\* so every cell carved for a room is a cell of the Grid.
RoomsInside ==
    (/\ RoomsReturned
     /\ call.config.min_room_size <= call.config.max_room_size
     /\ call.config.max_room_size + 3 <= Min(call.width, call.height))
        => \A k \in 1..Len(rooms) :
              /\ rooms[k].x >= 1 /\ rooms[k].y >= 1
              /\ rooms[k].x + rooms[k].w - 1 <= call.width - 2
              /\ rooms[k].y + rooms[k].h - 1 <= call.height - 2
              /\ RoomCells(rooms[k]) \subseteq DOMAIN grid
RoomAtBorder ==
    /\ RoomsReturned /\ Len(rooms) >= 1
    /\ call.config.max_room_size + 3 <= Min(call.width, call.height)
    /\ \E k \in 1..Len(rooms) : rooms[k].y = 1 /\ rooms[k].x + rooms[k].w = call.width - 2

\* a room's rectangle grown by one cell on every side
Expanded(r) == ((r.x - 1)..(r.x + r.w)) \X ((r.y - 1)..(r.y + r.h))
\* the gap between two intervals of cells a..(a + m - 1) and b..(b + n - 1)
Gap(a, m, b, n) == Max(b - (a + m), a - (b + n))
\* the room list after the first n attempts of the call's generateRooms
RoomsAfter(n) ==
    RoomLoop([rooms |-> <<>>, rng |-> RngSeed(MixedSeed(NumericSeed(call.seed))),
              ub |-> FALSE],
             call.config.room_count * 10 - n, call.config, call.width, call.height).rooms
IsPrefix(s, t) == Len(s) <= Len(t) /\ \A i \in 1..Len(s) : s[i] = t[i]

\* C12: in the list generateRooms returns, no two rooms' rectangles grown by one cell
\* share a cell, which is to say the rooms are two or more cells apart along x or
\* along y; and the list only grows, attempt by attempt, by appending.
RoomsSeparated ==
    RoomsReturned
        => /\ \A i, j \in 1..Len(rooms) :
                i # j => /\ Expanded(rooms[i]) \cap Expanded(rooms[j]) = {}
                         /\ \/ Gap(rooms[i].x, rooms[i].w, rooms[j].x, rooms[j].w) >= 2
                            \/ Gap(rooms[i].y, rooms[i].h, rooms[j].y, rooms[j].h) >= 2
           /\ \A n \in 0..(call.config.room_count * 10 - 1) :
                IsPrefix(RoomsAfter(n), RoomsAfter(n + 1))
           /\ RoomsAfter(call.config.room_count * 10) = rooms
TwoRoomsAfterRejection ==
    /\ RoomsReturned /\ Len(rooms) >= 2
    /\ \E n \in 1..(call.config.room_count * 10 - 1) :
          Len(RoomsAfter(n)) = 1 /\ Len(RoomsAfter(n + 1)) = 1

\* the sizes of the 4-connected components of call.tile_id inside the rectangle
PatchSizes ==
    {floodFillCount(hostMap, c[1], c[2], PatchFloor, call.width, call.height,
                    call.tile_id, 0, call.startX, call.startY).count :
        c \in Cells(call.width, call.height)}

\* C13: after a run of removeSmallPatches no 4-connected component of tile_id inside
\* the rectangle has a size in 1 .. min_size - 1, and a second run with the same
\* parameters writes nothing: it leaves every ground as the first run left it.
PatchesIdempotent ==
    /\ pc \in {"patched", "patched2"} => PatchSizes \cap (1..(call.min_size - 1)) = {}
    /\ pc = "patched2" => (hostMap = first.map /\ writes = 0)
PatchRemovedPatchKept ==
    /\ pc = "patched2"
    /\ hostMap # initMap
    /\ \E n \in PatchSizes : n >= call.min_size

\* what it costs to enter cell c of the Grid: 1 for Floor, 5 for Void
EnterCost(c) == IF grid[c] = 1 THEN 1 ELSE 5
\* the cost of a path: what entering each of its cells after the first costs
RECURSIVE PathCost(_, _)
PathCost(path, k) ==
    IF k > Len(path) THEN 0 ELSE EnterCost(path[k]) + PathCost(path, k + 1)
\* the least cost of a 4-connected path in the Grid to each cell, of at most k steps
\* more than those d allows for
RECURSIVE CheapestWithin(_, _)
CheapestWithin(d, k) ==
    IF k = 0 THEN d
    ELSE Strict(d, CheapestWithin(
                       [c \in DOMAIN d |->
                           LET via == {d[n] + EnterCost(c) :
                                          n \in Neighbours4(c) \cap DOMAIN d}
                           IN  Min(d[c], Least(via))],
                       k - 1))
\* the least cost of a 4-connected path inside the Grid from the call's start to its goal
CheapestCost ==
    CheapestWithin([c \in DOMAIN grid |-> IF c = <<call.x1, call.y1>> THEN 0 ELSE 999999],
                   Cardinality(DOMAIN grid))[<<call.x2, call.y2>>]
Manhattan == Abs(call.x2 - call.x1) + Abs(call.y2 - call.y1)

\* C14: findShortestPath returns a 4-connected path inside the Grid from start to goal
\* whose cost, 1 for each Floor cell entered and 5 for each Void cell, is the least of
\* all such paths; on an all-Void Grid the cost is 5 x the Manhattan distance and the
\* path has Manhattan distance + 1 cells.
ShortestPathOptimal ==
    pc = "pathed"
        => /\ Len(ret) >= 1
           /\ ret[1] = <<call.x1, call.y1>> /\ ret[Len(ret)] = <<call.x2, call.y2>>
           /\ \A k \in 1..Len(ret) : ret[k] \in DOMAIN grid
           /\ \A k \in 2..Len(ret) : ret[k] \in Neighbours4(ret[k - 1])
           /\ PathCost(ret, 2) = CheapestCost
           /\ (\A c \in DOMAIN grid : grid[c] = 0)
                 => (PathCost(ret, 2) = 5 * Manhattan /\ Len(ret) = Manhattan + 1)
PathTakesDetour ==
    /\ pc = "pathed"
    /\ Len(ret) > Manhattan + 1
    /\ PathCost(ret, 2) < 5 * Manhattan

\* the Floor cells a 4-connected walk over Floor cells reaches from the cells of frontier
RECURSIVE FloorReach(_, _)
FloorReach(visited, frontier) ==
    IF frontier = {} THEN visited
    ELSE FloorReach(visited \cup frontier,
                    {n \in UNION {Neighbours4(c) : c \in frontier} :
                        n \in DOMAIN grid /\ n \notin visited \cup frontier /\ grid[n] = 1})
\* the hubs the call's generateIntersections returned, <<>> when it was not called
HubsOfCall ==
    IF call.config.add_intersections
    THEN generateIntersections(
             generateRooms(RngSeed(MixedSeed(NumericSeed(call.seed))), call.config,
                           call.width, call.height).rng,
             call.config, rooms, call.width, call.height).intersections
    ELSE <<>>
\* the cells the corridors must join: every cell of every room, every hub centre
JoinedCells ==
    AllRoomCells(rooms) \cup {<<HubsOfCall[k].centerX, HubsOfCall[k].centerY>> :
                                k \in 1..Len(HubsOfCall)}
\* the states of a dungeon call after its corridor-routing step: after the dead ends,
\* after the caves overlay, and after the commit pass
CorridorsRouted ==
    /\ Dungeon
    /\ \/ pc \in {"dungeon60", "dungeon80"}
       \/ pc = "done" /\ ret = "true"

\* C15: with corridor_width >= 1, once the corridors are routed all cells of all rooms
\* and all hub centres are Floor cells of one 4-connected component of Floor cells,
\* and stay so after the dead ends and the caves overlay.
RoomsConnected ==
    (CorridorsRouted /\ call.config.corridor_width >= 1 /\ JoinedCells # {})
        => \E c \in JoinedCells : JoinedCells \subseteq FloorReach({}, {c} \cap {d \in DOMAIN grid : grid[d] = 1})
RoomsJoinedThroughHubs ==
    /\ CorridorsRouted /\ pc = "dungeon80"
    /\ Len(rooms) >= 2 /\ Len(HubsOfCall) >= 2

\* C16: noise returns a value in [-1, 1] for every input, and fractal returns a value
\* in [-1, 1] for every octave count >= 1.
NoiseInRange ==
    pc = "sampled" => (ret >= -Scale /\ ret <= Scale)

\* what the call's generateRooms returned, and what its generateIntersections returned
RoomsOfCall ==
    generateRooms(RngSeed(MixedSeed(NumericSeed(call.seed))), call.config,
                  call.width, call.height)
IntersectionsOfCall ==
    generateIntersections(RoomsOfCall.rng, call.config, rooms, call.width, call.height)
\* the states of a dungeon call in which generateIntersections has returned
HubsReturned ==
    /\ CorridorsRouted
    /\ call.config.add_intersections

FreshSeeded == seedRandom(call.seed)
\* the height map generateIslandMap has after step 1 and after step 2 on a generator
\* that was never used
FreshHeightMap == generateHeightMap(FreshSeeded.perm, call.config, call.width, call.height)
FreshMasked == applyIslandMask(FreshHeightMap, call.config, call.width, call.height)
\* the Grid generateDungeonMap has after its rooms, after its corridors and after its
\* caves on a generator that was never used
FreshRoomGrid == Carve(NewGrid(call.width, call.height), AllRoomCells(RoomsOfCall.rooms))
FreshLaid ==
    LayCorridors(FreshRoomGrid, RoomsOfCall.rooms, RoomsOfCall.rng, call.config,
                 call.width, call.height)
FreshCaved ==
    IF call.config.generate_caves THEN CarveCaves(FreshLaid.grid, DefaultPerm, call.config)
    ELSE FreshLaid.grid

\* C18: a call on a generator that has made another call before has, at every step,
\* the engine, the noise table and the layout that the call has on a generator that
\* was never used: they are made from the call's seed, configuration and size alone.
FreshOnReuse ==
    /\ (Island /\ pc \notin {"idle", "done"})
         => /\ rng = FreshSeeded.rng /\ perm = FreshSeeded.perm
            /\ pc = "island20" => heightMap = FreshHeightMap
            /\ pc \notin {"island0", "island20"} => heightMap = FreshMasked
    /\ (Island /\ pc = "done" /\ ret = "true")
         => rng = FreshSeeded.rng /\ perm = FreshSeeded.perm /\ heightMap = FreshMasked
    /\ (Dungeon /\ (pc \in {"dungeon30", "dungeon60", "dungeon80"}
                      \/ (pc = "done" /\ ret = "true")))
         => /\ perm = DefaultPerm
            /\ rooms = RoomsOfCall.rooms
            /\ pc = "dungeon30" => (rng = RoomsOfCall.rng /\ grid = FreshRoomGrid)
            /\ pc = "dungeon60" => (rng = FreshLaid.rng /\ grid = FreshLaid.grid)
            /\ pc \in {"dungeon80", "done"} => (rng = FreshLaid.rng /\ grid = FreshCaved)
            /\ pc = "done"
                 => hostMap = Commit(initMap, FreshCaved, call.config, call.width,
                                     call.height, call.startX, call.startY)
DungeonAfterIsland ==
    /\ round = 2 /\ Dungeon /\ pc = "done" /\ ret = "true"
    /\ first.call.mode = "island" /\ first.call.seed # call.seed
    /\ call.config.generate_caves /\ Len(rooms) >= 1

\* C19: in a dungeon call the host map is as it was before the call, with no tile
\* created or written, at every checkpoint before the commit pass, and the Grid the
\* commit pass reads is made from the call's arguments alone, not from the host map;
\* the reports are 30, 60 and 80, none during or after the commit pass; a call
\* cancelled at 30, 60 or 80 leaves the host map exactly as it was.
HostMapUntouchedBeforeCommit ==
    /\ (Dungeon /\ pc \in {"dungeon30", "dungeon60", "dungeon80"})
         => (hostMap = initMap /\ writes = 0)
    /\ (Dungeon /\ pc = "dungeon80") => grid = FreshCaved
    /\ (Dungeon /\ pc = "done" /\ cancelled)
         => (hostMap = initMap /\ writes = 0 /\ reports[Len(reports)] \in {30, 60, 80})
    /\ (Dungeon /\ pc = "done" /\ ret = "true")
         => /\ reports = (IF callback THEN <<30, 60, 80>> ELSE <<>>)
            /\ writes = call.width * call.height
CancelledAtEighty ==
    /\ Dungeon /\ pc = "done" /\ cancelled
    /\ reports = <<30, 60, 80>>
    /\ initMap # <<>> /\ \E c \in DOMAIN grid : grid[c] = 1

\* the tile a position had before the call, an empty tile where it had none
TileBefore(p) == GetOrCreateTile(initMap, p)
\* a Void cell with a Floor cell among its in-bounds eight neighbours
WallCell(c) ==
    /\ grid[c] = 0
    /\ \E n \in Neighbours8(c) : n \in CallCells /\ grid[n] = 1

\* C20: after the commit pass the tile of a Floor cell has ground floor_id and the
\* stacked items it had, no wall item added; the tile of a Void cell with a Floor cell
\* among its in-bounds eight neighbours has ground floor_id and the stacked items it
\* had followed by exactly one wall_id item; the tile of every other Void cell has no
\* ground, whatever ground it had, and the stacked items it had.
CommitByGridState ==
    (Returned /\ Dungeon /\ ret = "true")
        => \A c \in CallCells :
              /\ HasTile(hostMap, TargetPos(c))
              /\ grid[c] = 1
                   => /\ hostMap[TargetPos(c)].ground = call.config.floor_id
                      /\ hostMap[TargetPos(c)].items = TileBefore(TargetPos(c)).items
              /\ WallCell(c)
                   => /\ hostMap[TargetPos(c)].ground = call.config.floor_id
                      /\ hostMap[TargetPos(c)].items
                            = Append(TileBefore(TargetPos(c)).items, call.config.wall_id)
              /\ (grid[c] = 0 /\ ~WallCell(c))
                   => /\ hostMap[TargetPos(c)].ground = 0
                      /\ hostMap[TargetPos(c)].items = TileBefore(TargetPos(c)).items
CommitOverOldTiles ==
    /\ Returned /\ Dungeon /\ ret = "true"
    /\ \E c \in CallCells : WallCell(c) /\ TileBefore(TargetPos(c)).items # <<>>
    /\ \E c \in CallCells : grid[c] = 1 /\ TileBefore(TargetPos(c)).items # <<>>
    /\ \E c \in CallCells :
          grid[c] = 0 /\ ~WallCell(c) /\ TileBefore(TargetPos(c)).ground # 0

\* whether the Grid h has the cells of the Grid g, and as Floor every Floor cell of g
Covers(g, h) ==
    /\ DOMAIN h = DOMAIN g
    /\ \A c \in DOMAIN g : h[c] \in {0, 1} /\ (g[c] = 1 => h[c] = 1)
\* at report 30: the Grid after the hubs are carved, and after the corridors are
HubGrid == placeIntersections(grid, HubsOfCall)
CorridorGrid ==
    CorridorLoop([grid |-> HubGrid,
                  rng |-> IF call.config.add_intersections THEN IntersectionsOfCall.rng
                          ELSE rng,
                  ub |-> FALSE],
                 CorridorEnds(rooms, HubsOfCall, call.config), 1,
                 call.config, call.width, call.height).grid

\* C21: the Grid starts all Void but for the rooms, whose cells are cells of the Grid;
\* the hubs, the corridors, the dead ends and the caves overlay each leave a Grid of
\* the same width x height cells in which every cell that was Floor is Floor.
GridMonotone ==
    [][/\ (pc = "idle" /\ pc' = "dungeon30")
            => /\ DOMAIN grid' = Cells(call'.width, call'.height)
               /\ AllRoomCells(rooms') \subseteq DOMAIN grid'
               /\ \A c \in DOMAIN grid' : grid'[c] = IF c \in AllRoomCells(rooms') THEN 1 ELSE 0
       /\ (pc = "dungeon30" /\ pc' = "dungeon60")
            => /\ Covers(grid, HubGrid)
               /\ Covers(HubGrid, CorridorGrid)
               /\ Covers(CorridorGrid, grid')
       /\ (pc \in {"dungeon30", "dungeon60", "dungeon80"}) => Covers(grid, grid')]_vars
GridGrewEveryStep ==
    /\ Dungeon /\ pc = "dungeon80"
    /\ call.config.add_dead_ends /\ Len(rooms) >= 2
    /\ FreshRoomGrid # FreshLaid.grid
    /\ FreshLaid.grid # grid
    /\ \E c \in DOMAIN grid : grid[c] = 0

\* whether the cells a and b are 4-adjacent
Adjacent4(a, b) == Abs(a[1] - b[1]) + Abs(a[2] - b[2]) = 1

\* C22: for every in-bounds start and goal findShortestPath returns a non-empty
\* sequence of in-bounds cells from the start to the goal whose consecutive cells are
\* 4-adjacent, and <<start>> when the goal is the start; createSmartCorridor with smart
\* pathfinding enabled carves along that path and never draws the coin of the
\* L-shaped fallback.
PathJoinsEnds ==
    /\ pc = "pathed"
         => /\ ret # <<>>
            /\ ret[1] = <<call.x1, call.y1>>
            /\ ret[Len(ret)] = <<call.x2, call.y2>>
            /\ \A k \in 1..Len(ret) : InRect(ret[k], call.width, call.height)
            /\ \A k \in 1..(Len(ret) - 1) : Adjacent4(ret[k], ret[k + 1])
            /\ (call.x1 = call.x2 /\ call.y1 = call.y2) => ret = <<<<call.x1, call.y1>>>>
    /\ pc = "corridored"
         => /\ ret = "none"
            /\ rng = 0
            /\ Covers(first.grid, grid)
            /\ grid[<<call.x1, call.y1>>] = 1 /\ grid[<<call.x2, call.y2>>] = 1
SmartCorridorCarved ==
    /\ pc = "corridored"
    /\ call.x1 # call.x2 /\ call.y1 # call.y2
    /\ first.grid[<<call.x1, call.y1>>] = 0 /\ first.grid[<<call.x2, call.y2>>] = 0
    /\ \E c \in DOMAIN grid : grid[c] = 0

\* the ids of the rectangle's cells before the call, and the numbers of neighbours of
\* a cell in the rectangle that were water and ground then
IdBefore(c) == GroundId(initMap, CellPos(c, call.config.target_floor, 0, 0))
WaterAround(c) ==
    Cardinality({n \in Neighbours8(c) \cap CallCells : IdBefore(n) = call.config.water_id})
GroundAround(c) ==
    Cardinality({n \in Neighbours8(c) \cap CallCells : IdBefore(n) = call.config.ground_id})
Interior(c) ==
    c[1] >= 1 /\ c[1] < call.width - 1 /\ c[2] >= 1 /\ c[2] < call.height - 1

\* C23: after one pass, in whichever order its loops visit the cells, an interior cell
\* that was water is ground iff more of its 8 neighbours were ground than water at the
\* start of the pass, one that was ground is water iff more were water than ground,
\* and it keeps its id otherwise; it is the map the one-pass smoothCoastline of the
\* generator leaves.
SmoothBySnapshot ==
    (pc = "smoothed" /\ call.passes = 1)
        => /\ \A c \in CallCells :
                Interior(c)
                  => GroundId(hostMap, CellPos(c, call.config.target_floor, 0, 0))
                       = IF IdBefore(c) = call.config.water_id
                              /\ GroundAround(c) > WaterAround(c)
                         THEN call.config.ground_id
                         ELSE IF IdBefore(c) = call.config.ground_id
                                   /\ WaterAround(c) > GroundAround(c)
                         THEN call.config.water_id
                         ELSE IdBefore(c)
           /\ hostMap = smoothCoastline(initMap, call.config, call.width, call.height,
                                        0, 0).map
SmoothedBothNeighbours ==
    /\ pc = "smoothed" /\ call.passes = 1 /\ call.reversed
    /\ \A c \in CallCells :
          Interior(c) => GroundId(hostMap, CellPos(c, call.config.target_floor, 0, 0))
                            # IdBefore(c)

\* C24: smoothCoastline leaves every cell of the outermost ring of the rectangle as it
\* was, whatever the number of passes, and with smoothing_passes = 0 the whole map.
SmoothKeepsRing ==
    pc = "smoothed"
        => /\ \A c \in CallCells :
                ~Interior(c) => hostMap[CellPos(c, call.config.target_floor, 0, 0)]
                                  = initMap[CellPos(c, call.config.target_floor, 0, 0)]
           /\ DOMAIN hostMap = DOMAIN initMap
           /\ call.passes = 0 => hostMap = initMap
SmoothedTwiceInsideOnly ==
    /\ pc = "smoothed" /\ call.passes = 2
    /\ hostMap # initMap
    /\ hostMap # smoothCoastline(initMap, [call.config EXCEPT !.smoothing_passes = 1],
                                 call.width, call.height, 0, 0).map

\* the Manhattan distance from room's centre to the centre of hub
HubDistance(room, hub) == Abs(cx(room) - hub.centerX) + Abs(cy(room) - hub.centerY)
\* whether hubs[k] is the hub room is to be joined to: no hub is nearer, and no hub
\* placed before it is as near
HubOfRoom(room, hubs, k) ==
    /\ \A j \in 1..Len(hubs) : HubDistance(room, hubs[k]) <= HubDistance(room, hubs[j])
    /\ \A j \in 1..(k - 1) : HubDistance(room, hubs[k]) < HubDistance(room, hubs[j])
\* whether reqs[from + 1 .. from + Len(rooms) - 1] join each room to the next one
RoomPass(reqs, from) ==
    \A i \in 1..(Len(rooms) - 1) :
        reqs[from + i] = <<cx(rooms[i]), cy(rooms[i]), cx(rooms[i + 1]), cy(rooms[i + 1])>>
\* whether reqs is the hub pass: a request per room to its hub, then one per pair of
\* consecutive hubs
HubPass(reqs, hubs) ==
    /\ \A i \in 1..Len(rooms) :
          \E k \in 1..Len(hubs) :
              /\ HubOfRoom(rooms[i], hubs, k)
              /\ reqs[i] = <<cx(rooms[i]), cy(rooms[i]), hubs[k].centerX, hubs[k].centerY>>
    /\ \A i \in 1..(Len(hubs) - 1) :
          reqs[Len(rooms) + i] = <<hubs[i].centerX, hubs[i].centerY,
                                   hubs[i + 1].centerX, hubs[i + 1].centerY>>
\* the number of requests of the first pass, and of the pass run once more
FirstPassLen ==
    IF call.config.add_intersections /\ Len(HubsOfCall) >= 1
    THEN Len(rooms) + Len(HubsOfCall) - 1
    ELSE IF Len(rooms) >= 1 THEN Len(rooms) - 1 ELSE 0
SecondPassLen ==
    IF call.config.connect_all_rooms /\ Len(rooms) >= 2 THEN Len(rooms) - 1 ELSE 0
\* the corridor requests of the call in the order they are made, and the Grid and the
\* engine they leave when routed in that order over the Grid with the hubs carved
RequestsOfCall == CorridorEnds(rooms, HubsOfCall, call.config)
RoutedInOrder ==
    CorridorLoop([grid |-> placeIntersections(FreshRoomGrid, HubsOfCall),
                  rng |-> IF call.config.add_intersections THEN IntersectionsOfCall.rng
                          ELSE RoomsOfCall.rng,
                  ub |-> FALSE],
                 RequestsOfCall, 1, call.config, call.width, call.height)

\* whether the hub draws of the call, if it makes any, are all defined
HubsDrawn == call.config.add_intersections => ~IntersectionsOfCall.ub

\* C25: with add_intersections set and at least one hub the corridor requests are one
\* per room, in placement order, to the hub nearest by Manhattan distance (the first
\* placed on ties), then one per pair of consecutive hubs; otherwise one per pair of
\* consecutive rooms; with connect_all_rooms and at least two rooms the consecutive
\* room pass is made once more; the Grid at report 60 is the one these requests leave
\* when routed in this order, with the dead ends added.
RequestOrder ==
    (Dungeon /\ pc = "dungeon60" /\ HubsDrawn)
        => /\ Len(RequestsOfCall) = FirstPassLen + SecondPassLen
           /\ IF call.config.add_intersections /\ Len(HubsOfCall) >= 1
              THEN HubPass(RequestsOfCall, HubsOfCall)
              ELSE RoomPass(RequestsOfCall, 0)
           /\ SecondPassLen > 0 => RoomPass(RequestsOfCall, FirstPassLen)
           /\ grid = DeadEndsAdded(RoutedInOrder, call.config, call.width, call.height).grid
RoomsSentToLaterHub ==
    /\ Dungeon /\ pc = "dungeon60"
    /\ call.config.add_intersections /\ call.config.connect_all_rooms
    /\ Len(rooms) >= 2 /\ Len(HubsOfCall) >= 2
    /\ \E i \in 1..Len(rooms) : ~HubOfRoom(rooms[i], HubsOfCall, 1)
    /\ \E i \in 1..Len(rooms) :
          /\ HubOfRoom(rooms[i], HubsOfCall, 1)
          /\ HubDistance(rooms[i], HubsOfCall[1]) = HubDistance(rooms[i], HubsOfCall[2])
          /\ HubsOfCall[1] # HubsOfCall[2]
    /\ Len(RequestsOfCall) = 2 * Len(rooms) + Len(HubsOfCall) - 2

\* C26: in every generation call, island and dungeon, the noise table in use is the one
\* built from the low 32 bits of the call's numeric seed, the caves overlay samples
\* that table, and the engine drawn from is the one seeded with the high 32 bits XOR
\* the low 32 bits.
NoiseTableFromSeed ==
    /\ (Island /\ pc \in {"island0", "island20", "island40"})
         => (perm = FreshSeeded.perm /\ rng = FreshSeeded.rng)
    /\ (Dungeon /\ pc \in {"dungeon30", "dungeon60", "dungeon80"})
         => /\ perm = FreshSeeded.perm
            /\ pc = "dungeon30" => rng = generateRooms(FreshSeeded.rng, call.config,
                                                      call.width, call.height).rng
            /\ (pc = "dungeon80" /\ call.config.generate_caves)
                 => grid = CarveCaves(FreshLaid.grid, FreshSeeded.perm, call.config)

\* whether (x, y) is in the bounding box of room enlarged by five cells
InEnlargedBox(x, y, room) ==
    /\ room.x - 5 <= x /\ x <= room.x + room.w + 5
    /\ room.y - 5 <= y /\ y <= room.y + room.h + 5

\* C27: every hub generateIntersections accepted has its centre outside the bounding
\* box, enlarged by five cells, of every room, and inside
\* [10, width - 10] x [10, height - 10]; the hubs carved into the Grid are these.
HubsKeepClear ==
    (HubsReturned /\ ~IntersectionsOfCall.ub)
        => /\ \A k \in 1..Len(HubsOfCall) :
                 /\ \A i \in 1..Len(rooms) :
                        ~InEnlargedBox(HubsOfCall[k].centerX, HubsOfCall[k].centerY, rooms[i])
                 /\ HubsOfCall[k].centerX \in 10..(call.width - 10)
                 /\ HubsOfCall[k].centerY \in 10..(call.height - 10)
                 /\ grid[<<HubsOfCall[k].centerX, HubsOfCall[k].centerY>>] = 1
HubsAfterRejections ==
    /\ HubsReturned /\ pc = "dungeon60"
    /\ Len(rooms) >= 2 /\ Len(HubsOfCall) >= 2
    /\ IntersectionsOfCall.attempts > Len(HubsOfCall)

\* the cells of [1, width - 2] x [1, height - 2] of the call
MarginCells == (1..(call.width - 2)) \X (1..(call.height - 2))
\* the first m cells of the straight run from the cell c in direction d
RunFrom(c, d, m) ==
    {<<c[1] + s * (IF d = 0 THEN 1 ELSE IF d = 1 THEN -1 ELSE 0),
       c[2] + s * (IF d = 2 THEN 1 ELSE IF d = 3 THEN -1 ELSE 0)>> : s \in 1..m}
\* whether the Grid h is the Grid g with one straight run of at most DeadEndMaxLen
\* cells made Floor, the run starting next to a Floor cell of g and staying inside
\* MarginCells
StraightRun(g, h) ==
    /\ Covers(g, h)
    /\ Let({e \in DOMAIN g : h[e] # g[e]},
           LAMBDA new :
              \/ new = {}
              \/ \E c \in MarginCells, d \in 0..3 :
                    /\ g[c] = 1
                    /\ new \subseteq RunFrom(c, d, DeadEndMaxLen)
                    /\ \E m \in 1..DeadEndMaxLen :
                          /\ new \subseteq RunFrom(c, d, m)
                          /\ RunFrom(c, d, m) \subseteq MarginCells
                          /\ \A e \in RunFrom(c, d, m) : h[e] = 1)
\* whether attempts i + 1 to DeadEndCount of addDeadEnds, made from st, each leave a
\* straight run or nothing, and end in the Grid and the engine of the state
RECURSIVE DeadEndsRun(_, _)
DeadEndsRun(st, i) ==
    IF i = DeadEndCount THEN grid = st.grid /\ rng = st.rng
    ELSE Let(DeadEnd(st, call.width, call.height),
             LAMBDA nx : StraightRun(st.grid, nx.grid) /\ DeadEndsRun(nx, i + 1))
\* the states of a dungeon call right after its dead ends were added
DeadEndsDone ==
    /\ Dungeon /\ pc = "dungeon60" /\ call.config.add_dead_ends
    /\ HubsDrawn

\* C28: addDeadEnds makes exactly 10 attempts; an attempt carves only from a Floor
\* cell, at most 15 cells, all inside [1, width - 2] x [1, height - 2], in one straight
\* run that starts next to the chosen cell; the outer ring is never written and every
\* new Floor cell is joined, over Floor cells, to a cell that was Floor before.
DeadEndsStraight ==
    DeadEndsDone
        => /\ DeadEndsRun(RoutedInOrder, 0)
           /\ \A c \in DOMAIN grid :
                 (grid[c] = 1 /\ RoutedInOrder.grid[c] = 0)
                     => /\ c \in MarginCells
                        /\ \E e \in FloorReach({}, {c}) : RoutedInOrder.grid[e] = 1
DeadEndsGrown ==
    /\ DeadEndsDone
    /\ Cardinality({c \in DOMAIN grid : grid[c] = 1 /\ RoutedInOrder.grid[c] = 0}) >= 6
    /\ \E c \in DOMAIN grid :
          /\ grid[c] = 1 /\ RoutedInOrder.grid[c] = 0
          /\ c[1] \in {1, call.width - 2} \/ c[2] \in {1, call.height - 2}

\* C29: for every combination of values the dungeon page permits, every range
\* generateRooms and generateIntersections draw from is non-empty: min_room_size <=
\* max_room_size, 1 <= width - w - 2 and 1 <= height - h - 2 for the drawn w and h,
\* 10 <= width - 10 and 10 <= height - 10; no draw of the call is undefined.
DialogRangesNonEmpty ==
    (Dungeon /\ pc # "idle")
        => /\ call.config.min_room_size <= call.config.max_room_size
           /\ 10 <= call.width - 10 /\ 10 <= call.height - 10
           /\ ret # "undefined"
           /\ \A k \in 1..Len(rooms) :
                 1 <= call.width - rooms[k].w - 2 /\ 1 <= call.height - rooms[k].h - 2

\* whether the tile at the cell c is bare, and whether it is a wall tile: ground
\* floor_id with a wall_id item on top
BareAt(c) == ~HasGround(hostMap, TargetPos(c))
WallAt(c) ==
    /\ GroundId(hostMap, TargetPos(c)) = call.config.floor_id
    /\ hostMap[TargetPos(c)].items # <<>>
    /\ hostMap[TargetPos(c)].items[Len(hostMap[TargetPos(c)].items)] = call.config.wall_id
\* whether the tile at the cell c is a Floor tile: the tile of a Floor cell, with ground
\* floor_id
FloorAt(c) == grid[c] = 1 /\ GroundId(hostMap, TargetPos(c)) = call.config.floor_id

\* C30: after a commit pass that returns true, every Floor cell has a Floor tile, and
\* every eight-neighbour of it inside the rectangle has a Floor tile or a wall tile:
\* no Floor tile is next to a bare tile, also diagonally.
FloorEnclosed ==
    (Returned /\ Dungeon /\ ret = "true")
        => \A c \in CallCells :
              grid[c] = 1
                  => /\ FloorAt(c)
                     /\ \A n \in Neighbours8(c) \cap CallCells :
                           /\ ~BareAt(n)
                           /\ FloorAt(n) \/ (grid[n] = 0 /\ WallAt(n))
WallAtCornerOnly ==
    /\ Returned /\ Dungeon /\ ret = "true"
    /\ \E c \in CallCells :
          /\ WallAt(c) /\ grid[c] = 0
          /\ \A n \in Neighbours4(c) \cap CallCells : grid[n] = 0
          /\ TileBefore(TargetPos(c)).ground = 0
    /\ \E c \in CallCells : BareAt(c) /\ TileBefore(TargetPos(c)).ground # 0

====
